---- MODULE Spec2Model ----
(***************************************************************************)
(* A model of the 3d-gravity simulation: the N-body integrator with its    *)
(* trail bookkeeping (scripts/physics.py), the vector camera with its      *)
(* free, locked and planetary handlers (scripts/camera.py) and the frame   *)
(* loop that drives them (main.py).                                        *)
(*                                                                         *)
(* Numbers.  The program computes in floating point; the model computes in *)
(* integers.  Lengths are in units of 1e7 m, times in days (DT seconds),   *)
(* masses in units of 1.989e24 kg, so that G is 1000 and the scene keeps   *)
(* its proportions (Sun radius 800, Earth at 14960 moving 257 per day).    *)
(* A unit vector is stored multiplied by UNIT, a multiplier (time,         *)
(* movement speed) multiplied by Hundredths.  Every division truncates     *)
(* toward zero and a norm is the integer square root, so that all results  *)
(* are exact for axis-aligned vectors and rounded otherwise.  np.cos and   *)
(* np.sin are only ever taken of an angular step; the step is modelled as  *)
(* a quarter turn (cos 0, sin +-1), the rotation that is exact on the      *)
(* integer lattice.  The one non-finite value the program can produce, the *)
(* 0/0 of normalising a zero vector, is the vector NaN3; a camera holding  *)
(* it takes no further step.  Window resizing, the trail and label         *)
(* toggles and quitting do not touch the state modelled here.              *)
(***************************************************************************)
EXTENDS Integers, Sequences, FiniteSets, TLC

VARIABLES
    bodies,                     \* main.py: bodies, the list update_physics advances
    camera,                     \* main.py: camera, a Camera object and its dynamic attributes
    paused,                     \* main.py: paused
    time_multiplier,            \* main.py: time_multiplier, in Hundredths
    movement_speed_multiplier,  \* main.py: movement_speed_multiplier, in Hundredths
    locked_body,                \* main.py: locked_body, a reference to a Body or None
    planetary_body,             \* main.py: planetary_body, a reference to a Body or None
    generation,                 \* how many times create_solar_system() has replaced the list
    rendered,                   \* TRUE in the state render_scene draws: the end of a frame
    last_keys,                  \* the keys held during the last frame
    shown,                      \* what the last rendered frame showed of the camera lock
    prev_shown,                 \* what the rendered frame before it showed
    entry,                      \* progress of the latest entry into Locked mode
    after_reset,                \* progress of a reset that no L or P command followed
    nframes,                    \* frames run so far
    nevents,                    \* commands handled so far
    nkeyframes,                 \* frames run so far with a key held down
    nsteps,                     \* update_physics calls made by the physics-only specification
    grown,                      \* the trails as the last update_physics call held them before
                                \* its truncation loops
    call                        \* the arguments and the result of the latest call made by a
                                \* specification of single functions

vars == << bodies, camera, paused, time_multiplier, movement_speed_multiplier,
           locked_body, planetary_body, generation, rendered, last_keys, shown, prev_shown,
           entry, after_reset, nframes, nevents, nkeyframes, nsteps, grown, call >>

----------------------------------------------------------------------------
(* Bounds of the model. *)

MaxFrames == 3
MaxEvents == 2
MaxKeyFrames == 1
MaxPhysicsSteps == 4

----------------------------------------------------------------------------
(* Fixed-point arithmetic and 3-vectors. *)

UNIT == 10 * 10 * 10
Hundredths == 10 * 10

Abs(a) == IF a < 0 THEN -a ELSE a
Min(a, b) == IF a <= b THEN a ELSE b
Max(a, b) == IF a >= b THEN a ELSE b

\* Division truncating toward zero (b > 0): the rounding of a float quotient
\* to the model's resolution, symmetric in the sign of a.
TDiv(a, b) == IF a >= 0 THEN a \div b ELSE -((-a) \div b)

RECURSIVE ISqrtIn(_, _, _)
ISqrtIn(n, lo, hi) ==
    IF lo >= hi THEN lo
    ELSE IF (lo + hi + 1) \div 2 <= n \div ((lo + hi + 1) \div 2)
         THEN ISqrtIn(n, (lo + hi + 1) \div 2, hi)
         ELSE ISqrtIn(n, lo, (lo + hi + 1) \div 2 - 1)

\* The largest r with r * r <= n.
ISqrt(n) == IF n <= 0 THEN 0 ELSE ISqrtIn(n, 1, Min(n, 46340))

Vec(x, y, z) == << x, y, z >>
Zero3 == << 0, 0, 0 >>
VAdd(a, b) == << a[1] + b[1], a[2] + b[2], a[3] + b[3] >>
VSub(a, b) == << a[1] - b[1], a[2] - b[2], a[3] - b[3] >>
VNeg(a) == << -a[1], -a[2], -a[3] >>
VScale(a, k) == << a[1] * k, a[2] * k, a[3] * k >>
VDiv(a, k) == << TDiv(a[1], k), TDiv(a[2], k), TDiv(a[3], k) >>
Dot(a, b) == a[1] * b[1] + a[2] * b[2] + a[3] * b[3]
Cross(a, b) == << a[2] * b[3] - a[3] * b[2],
                  a[3] * b[1] - a[1] * b[3],
                  a[1] * b[2] - a[2] * b[1] >>
\* a * b / c for a, b >= 0 and c > 0, without forming a * b.  Dividing by a
\* distance twice is dividing by its square, without forming the square.
MulDiv(a, b, c) == (a \div c) * b + ((a % c) * b) \div c
\* np.linalg.norm.  The square of a long vector does not fit TLC's integers:
\* a vector along one axis has the length of its component, and any other
\* long vector is measured at a coarser resolution.
SquareOf(a) == Dot(a, a)
NormAtScale(a, s) == s * ISqrt(SquareOf(VDiv(a, s)))
NormWithin(a, m) ==
    IF m = Abs(a[1]) + Abs(a[2]) + Abs(a[3]) THEN m ELSE NormAtScale(a, 1 + m \div 20000)
Norm(a) == NormWithin(a, Max(Abs(a[1]), Max(Abs(a[2]), Abs(a[3]))))
\* v / np.linalg.norm(v): a unit vector, times UNIT.  The program divides a
\* zero vector by its zero norm into NaN components; the zero vector, which
\* no division of a non-zero vector yields, stands for that NaN vector.
DividedByNorm(v, norm) == IF norm = 0 THEN Zero3 ELSE VDiv(VScale(v, UNIT), norm)
UnitOf(v) == DividedByNorm(v, Norm(v))
NaN3 == Zero3
\* The product of a length and a unit vector.
Along(u, len) == VDiv(VScale(u, len), UNIT)
\* np.cross of two unit vectors, again in units of UNIT.
UCross(a, b) == VDiv(Cross(a, b), UNIT)
\* np.dot of two unit vectors, in units of UNIT.
UDot(a, b) == TDiv(Dot(a, b), UNIT)

----------------------------------------------------------------------------
(* scripts/physics.py *)

G == 1000
DT == 1
TIME_MULTIPLIER == Hundredths
max_trail_length == 100
trail_distance_threshold == 500

\* Body.__init__ with inclination 0: _apply_inclination leaves position and
\* velocity as given.
Body(name, mass, position, velocity, radius) ==
    [ name |-> name, mass |-> mass, position |-> position, velocity |-> velocity,
      radius |-> radius, inclination |-> 0, trail |-> << >> ]

\* A force for bodies at the same place as if they were one unit apart.
calculate_gravity_unguarded(body1, body2) ==
    LET r_vec == VSub(body2.position, body1.position)
        distance == Max(Norm(r_vec), 1)
        force_mag == MulDiv(G * Max(body1.mass, body2.mass),
                            Min(body1.mass, body2.mass), distance) \div distance
        force_dir == IF r_vec = Zero3 THEN << UNIT, 0, 0 >> ELSE UnitOf(r_vec)
    IN Along(force_dir, force_mag)

calculate_gravity(body1, body2) ==
    LET r_vec == VSub(body2.position, body1.position)
        distance == Norm(r_vec)
    IN IF distance = 0 THEN Zero3
       ELSE LET force_mag == MulDiv(G * Max(body1.mass, body2.mass),
                                    Min(body1.mass, body2.mass), distance) \div distance
                force_dir == UnitOf(r_vec)
            IN Along(force_dir, force_mag)

\* The inner loop of update_physics: the sum of the forces on bodies[i] from
\* every other body, at the positions the list holds now.
RECURSIVE NetForce(_, _, _)
NetForce(bs, i, j) ==
    IF j > Len(bs) THEN Zero3
    ELSE VAdd(IF j # i THEN calculate_gravity(bs[i], bs[j]) ELSE Zero3,
              NetForce(bs, i, j + 1))

\* while remaining_distance >= threshold: append a point one threshold further.
\* The loop runs remaining_distance \div threshold times and its k-th pass
\* appends last_point + k * (direction * threshold).
AddIntermediate(trail, last_point, direction, remaining_distance) ==
    LET passes == remaining_distance \div trail_distance_threshold
        stride == Along(direction, trail_distance_threshold)
        intermediate_point(k) == VAdd(last_point, VScale(stride, k))
    IN [ trail |-> trail \o [ k \in 1..passes |-> intermediate_point(k) ],
         remaining_distance |-> remaining_distance - passes * trail_distance_threshold ]

\* A truncation that pops one point where the loop pops until the trail fits.
TruncateTrail_once(trail) ==
    IF Len(trail) > max_trail_length THEN Tail(trail) ELSE trail

\* while len(body.trail) > body.max_trail_length: body.trail.pop(0)
\* The loop pops from the front until max_trail_length points are left.
TruncateTrail(trail) ==
    IF Len(trail) > max_trail_length
    THEN SubSeq(trail, Len(trail) - max_trail_length + 1, Len(trail))
    ELSE trail

\* A trail generation that appends the new position without the intermediate
\* points.
ExtendTrail_direct(trail, position) ==
    IF Len(trail) = 0 THEN Append(trail, position)
    ELSE IF Norm(VSub(position, trail[Len(trail)])) >= trail_distance_threshold
         THEN Append(trail, position)
         ELSE trail

\* Distance-based trail generation with intermediate points.
ExtendTrail(trail, position) ==
    IF Len(trail) = 0 THEN Append(trail, position)
    ELSE LET last_point == trail[Len(trail)]
             distance == Norm(VSub(position, last_point))
         IN IF distance >= trail_distance_threshold
            THEN LET direction == UnitOf(VSub(position, last_point))
                     r == AddIntermediate(trail, last_point, direction, distance)
                 IN IF r.remaining_distance > 0 THEN Append(r.trail, position) ELSE r.trail
            ELSE trail

\* One iteration of the loop with the position taken from the velocity the
\* body had before the step.
UpdateBody_explicit(bs, i, tm) ==
    LET body == bs[i]
        acceleration == VDiv(NetForce(bs, i, 1), body.mass)
        velocity == VAdd(body.velocity, VDiv(VScale(acceleration, DT * tm), Hundredths))
        position == VAdd(body.position, VDiv(VScale(body.velocity, DT * tm), Hundredths))
    IN [ bs EXCEPT ![i] = [ body EXCEPT !.velocity = velocity,
                                        !.position = position,
                                        !.trail = TruncateTrail(ExtendTrail(body.trail, position)) ] ]

\* One iteration of "for body in bodies": the body is advanced in place, so
\* the bodies after it in the list see its new position.
UpdateBody(bs, i, tm) ==
    LET body == bs[i]
        net_force == NetForce(bs, i, 1)
        acceleration == VDiv(net_force, body.mass)
        velocity == VAdd(body.velocity, VDiv(VScale(acceleration, DT * tm), Hundredths))
        position == VAdd(body.position, VDiv(VScale(velocity, DT * tm), Hundredths))
    IN [ bs EXCEPT ![i] = [ body EXCEPT !.velocity = velocity,
                                        !.position = position,
                                        !.trail = TruncateTrail(ExtendTrail(body.trail, position)) ] ]

\* The trail of bodies[i] as update_physics holds it between the trail
\* generation and the truncation loop.
GrownTrail(bs, i, tm) ==
    LET body == bs[i]
        net_force == NetForce(bs, i, 1)
        acceleration == VDiv(net_force, body.mass)
        velocity == VAdd(body.velocity, VDiv(VScale(acceleration, DT * tm), Hundredths))
        position == VAdd(body.position, VDiv(VScale(velocity, DT * tm), Hundredths))
    IN ExtendTrail(body.trail, position)

RECURSIVE GrownFrom(_, _, _)
GrownFrom(bs, i, tm) ==
    IF i > Len(bs) THEN << >>
    ELSE << GrownTrail(bs, i, tm) >> \o GrownFrom(UpdateBody(bs, i, tm), i + 1, tm)

GrownTrails(bs, tm) == GrownFrom(bs, 1, tm)

\* The forces update_physics applies: element i holds the net force of
\* bodies[i] and, for every j, the force calculate_gravity(bodies[i],
\* bodies[j]) added to it, computed when the outer loop reaches bodies[i],
\* and the positions the list holds at that moment.
RECURSIVE AppliedFrom(_, _, _)
AppliedFrom(bs, i, tm) ==
    IF i > Len(bs) THEN << >>
    ELSE << [ net |-> NetForce(bs, i, 1),
              at |-> [ j \in 1..Len(bs) |-> bs[j].position ],
              from |-> [ j \in 1..Len(bs) |->
                            IF j # i THEN calculate_gravity(bs[i], bs[j]) ELSE Zero3 ] ] >>
         \o AppliedFrom(UpdateBody(bs, i, tm), i + 1, tm)

RECURSIVE UpdateFrom(_, _, _)
UpdateFrom(bs, i, tm) ==
    IF i > Len(bs) THEN bs ELSE UpdateFrom(UpdateBody(bs, i, tm), i + 1, tm)

update_physics(bs, tm) == UpdateFrom(bs, 1, tm)

----------------------------------------------------------------------------
(* scripts/camera.py: the Camera class *)

WIDTH == 1000
HEIGHT == 800
move_speed == 1000
zoom_speed == 5000
fov_factor == 500
near_clip == 10
hover_margin == 100
hover_min_radius == 10
min_distance == 1000

world_up == << 0, UNIT, 0 >>
axis_x == << UNIT, 0, 0 >>
axis_y == << 0, UNIT, 0 >>
axis_z == << 0, 0, UNIT >>

\* np.eye(3), in units of UNIT; a matrix is the tuple of its rows.
eye3 == << axis_x, axis_y, axis_z >>
MatVec(m, v) == << UDot(m[1], v), UDot(m[2], v), UDot(m[3], v) >>
Col(m, j) == << m[1][j], m[2][j], m[3][j] >>
MatMul(a, b) ==
    << << UDot(a[1], Col(b, 1)), UDot(a[1], Col(b, 2)), UDot(a[1], Col(b, 3)) >>,
       << UDot(a[2], Col(b, 1)), UDot(a[2], Col(b, 2)), UDot(a[2], Col(b, 3)) >>,
       << UDot(a[3], Col(b, 1)), UDot(a[3], Col(b, 2)), UDot(a[3], Col(b, 3)) >> >>

\* The cosine and sine of one angular step in direction dir (+1 or -1).
StepAngle(dir) == [ cos |-> 0, sin |-> dir * UNIT ]

\* Camera(): the default position and orientation, no dynamic attribute.
Camera ==
    [ position |-> << 0, 0, -50000 >>,
      forward |-> axis_z,
      up |-> axis_y,
      right |-> UnitOf(UCross(axis_y, axis_z)),
      attrs |-> {},
      lock_offset |-> Zero3,
      planetary_up |-> Zero3,
      planetary_right |-> Zero3,
      manual_rotation |-> eye3 ]

hasattr(cam, a) == a \in cam.attrs

\* No axis of the camera is NaN.  A NaN axis makes every later projection
\* fail and spreads to the other axes; the model follows the program up to
\* the state that holds one, and not beyond.
CameraFinite(cam) == cam.forward # NaN3 /\ cam.right # NaN3 /\ cam.up # NaN3

\* Rodrigues' formula; vector is a unit vector or a position, axis a unit vector.
rotate_vector_around_axis(vector, axis, angle) ==
    VAdd(VAdd(VDiv(VScale(vector, angle.cos), UNIT),
              VDiv(VScale(VDiv(Cross(axis, vector), UNIT), angle.sin), UNIT)),
         VDiv(VScale(VDiv(VScale(axis, TDiv(Dot(axis, vector), UNIT)), UNIT),
                     UNIT - angle.cos), UNIT))

rotation_matrix_from_axis_angle(axis0, angle) ==
    LET axis == UnitOf(axis0)
        oc == UNIT - angle.cos
        outer(i, j) == TDiv(TDiv(axis[i] * axis[j], UNIT) * oc, UNIT)
        sx == TDiv(axis[1] * angle.sin, UNIT)
        sy == TDiv(axis[2] * angle.sin, UNIT)
        sz == TDiv(axis[3] * angle.sin, UNIT)
    IN << << angle.cos + outer(1, 1), outer(1, 2) - sz, outer(1, 3) + sy >>,
          << outer(2, 1) + sz, angle.cos + outer(2, 2), outer(2, 3) - sx >>,
          << outer(3, 1) - sy, outer(3, 2) + sx, angle.cos + outer(3, 3) >> >>

\* rotate_yaw without the rotation of right: only forward turns.
rotate_yaw_forward_only(cam, angle) ==
    LET forward == UnitOf(rotate_vector_around_axis(cam.forward, world_up, angle))
        up == UnitOf(UCross(forward, cam.right))
    IN [ cam EXCEPT !.forward = forward, !.up = up ]

rotate_yaw(cam, angle) ==
    LET forward == UnitOf(rotate_vector_around_axis(cam.forward, world_up, angle))
        right == UnitOf(rotate_vector_around_axis(cam.right, world_up, angle))
        up == UnitOf(UCross(forward, right))
    IN [ cam EXCEPT !.forward = forward, !.right = right, !.up = up ]

rotate_pitch(cam, angle) ==
    LET right_normalized == UnitOf(cam.right)
        forward == UnitOf(rotate_vector_around_axis(cam.forward, right_normalized, angle))
        up == UnitOf(rotate_vector_around_axis(cam.up, right_normalized, angle))
        right == UnitOf(UCross(up, forward))
    IN [ cam EXCEPT !.forward = forward, !.up = up, !.right = right ]

rotate_roll(cam, angle) ==
    LET forward_normalized == UnitOf(cam.forward)
        right == UnitOf(rotate_vector_around_axis(cam.right, forward_normalized, angle))
        up == UnitOf(rotate_vector_around_axis(cam.up, forward_normalized, angle))
        forward == UnitOf(UCross(right, up))
    IN [ cam EXCEPT !.right = right, !.up = up, !.forward = forward ]

move(cam, direction, speed_multiplier) ==
    LET move_distance == TDiv(move_speed * speed_multiplier, Hundredths)
        step == CASE direction = "forward" -> Along(cam.forward, move_distance)
                  [] direction = "backward" -> VNeg(Along(cam.forward, move_distance))
                  [] direction = "right" -> Along(cam.right, move_distance)
                  [] direction = "left" -> VNeg(Along(cam.right, move_distance))
                  [] direction = "up" -> Along(cam.up, move_distance)
                  [] direction = "down" -> VNeg(Along(cam.up, move_distance))
                  [] OTHER -> Zero3
    IN [ cam EXCEPT !.position = VAdd(cam.position, step) ]

\* The basis look_at assigns for a forward vector: right = world_up x forward
\* (the x axis when that is zero), up = forward x right.
FacingRight(right0) == IF Norm(right0) > 0 THEN UnitOf(right0) ELSE axis_x
Facing(cam, forward, right) ==
    [ cam EXCEPT !.forward = forward, !.right = right, !.up = UnitOf(UCross(forward, right)) ]
FacingAlong(cam, forward) == Facing(cam, forward, FacingRight(UCross(world_up, forward)))
LookAlong(cam, direction, norm) ==
    IF norm > 0 THEN FacingAlong(cam, DividedByNorm(direction, norm)) ELSE cam
LookFrom(cam, direction) == LookAlong(cam, direction, Norm(direction))
\* A look_at that takes the target for the direction.
look_at_from_origin(cam, target) == LookFrom(cam, target)
look_at(cam, target) == LookFrom(cam, VSub(target, cam.position))

----------------------------------------------------------------------------
(* scripts/camera.py: projection and hover *)

\* project_3d_to_2d; scale is fov_factor / cam_z and is kept as that quotient.
project_3d_to_2d(pos_3d, cam, width, height) ==
    LET relative_pos == VSub(pos_3d, cam.position)
        cam_x == TDiv(Dot(relative_pos, cam.right), UNIT)
        cam_y == TDiv(Dot(relative_pos, cam.up), UNIT)
        cam_z0 == TDiv(Dot(relative_pos, cam.forward), UNIT)
        cam_z == IF cam_z0 <= near_clip THEN near_clip ELSE cam_z0
    IN [ screen_x |-> TDiv((width \div 2) * cam_z + cam_x * fov_factor, cam_z),
         screen_y |-> TDiv((height \div 2) * cam_z - cam_y * fov_factor, cam_z),
         cam_z |-> cam_z ]

\* int(length * scale) for the scale of a projection.
Scaled(length, proj) == TDiv(length * fov_factor, proj.cam_z)

\* The test of one body without the test of where its centre is projected.
Hovers_anywhere(mouse_pos, body, cam, width, height) ==
    LET proj == project_3d_to_2d(body.position, cam, width, height)
        screen_radius == Max(hover_min_radius, Scaled(body.radius, proj))
        dx == mouse_pos[1] - proj.screen_x
        dy == mouse_pos[2] - proj.screen_y
    IN /\ Abs(dx) <= screen_radius /\ Abs(dy) <= screen_radius
       /\ dx * dx + dy * dy <= screen_radius * screen_radius

Hovers(mouse_pos, body, cam, width, height) ==
    LET proj == project_3d_to_2d(body.position, cam, width, height)
    IN /\ proj.cam_z > 0
       /\ -hover_margin <= proj.screen_x /\ proj.screen_x <= width + hover_margin
       /\ -hover_margin <= proj.screen_y /\ proj.screen_y <= height + hover_margin
       /\ LET screen_radius == Max(hover_min_radius, Scaled(body.radius, proj))
              dx == mouse_pos[1] - proj.screen_x
              dy == mouse_pos[2] - proj.screen_y
          IN dx * dx + dy * dy <= screen_radius * screen_radius

\* check_hover: the index of the first body of the list under the cursor, 0 for None.
RECURSIVE HoverFrom(_, _, _, _, _, _)
HoverFrom(mouse_pos, bs, i, cam, width, height) ==
    IF i > Len(bs) THEN 0
    ELSE IF Hovers(mouse_pos, bs[i], cam, width, height) THEN i
    ELSE HoverFrom(mouse_pos, bs, i + 1, cam, width, height)

check_hover(mouse_pos, bs, cam, width, height) == HoverFrom(mouse_pos, bs, 1, cam, width, height)

----------------------------------------------------------------------------
(* scripts/camera.py: the three continuous-input handlers.  keys is the set *)
(* of keys held down during the frame.                                      *)

\* if keys[...]: camera.rotate_yaw(...) / rotate_pitch(...) / move(...)
YawIf(pressed, cam, dir) == IF pressed THEN rotate_yaw(cam, StepAngle(dir)) ELSE cam
PitchIf(pressed, cam, dir) == IF pressed THEN rotate_pitch(cam, StepAngle(dir)) ELSE cam
MoveIf(pressed, cam, direction, speed_multiplier) ==
    IF pressed THEN move(cam, direction, speed_multiplier) ELSE cam

handle_camera_input(cam, keys, movement_speed_multiplier_) ==
    LET c1 == YawIf("left" \in keys, cam, -1)
        c2 == YawIf("right" \in keys, c1, 1)
        c3 == PitchIf("up" \in keys, c2, -1)
        c4 == PitchIf("down" \in keys, c3, 1)
        c5 == MoveIf("w" \in keys, c4, "up", movement_speed_multiplier_)
        c6 == MoveIf("s" \in keys, c5, "down", movement_speed_multiplier_)
        c7 == MoveIf("a" \in keys, c6, "left", movement_speed_multiplier_)
        c8 == MoveIf("d" \in keys, c7, "right", movement_speed_multiplier_)
        c9 == MoveIf("q" \in keys, c8, "backward", movement_speed_multiplier_)
    IN MoveIf("e" \in keys, c9, "forward", movement_speed_multiplier_)

\* lock_offset / |lock_offset|, or the z axis for a zero offset.
ZoomDirection(lock_offset) ==
    IF Norm(lock_offset) > 0 THEN UnitOf(lock_offset) ELSE axis_z

\* "Prevent getting too close": the clamp applied after zooming in.
ClampAt(lock_offset, current_distance) ==
    IF current_distance < min_distance
    THEN IF current_distance > 0
         THEN Along(DividedByNorm(lock_offset, current_distance), min_distance)
         ELSE << 0, 0, min_distance >>
    ELSE lock_offset
ClampOffset(lock_offset) == ClampAt(lock_offset, Norm(lock_offset))

\* The forward, right and up vectors the handler derives from the direction
\* to the body.
LockedForward(direction_to_body) ==
    IF Norm(direction_to_body) > 0 THEN UnitOf(direction_to_body) ELSE axis_z

LockedRight(forward) == FacingRight(UCross(world_up, forward))
LockedUpOf(up0) == IF Norm(up0) > 0 THEN UnitOf(up0) ELSE up0
LockedUp(forward) == LockedUpOf(UCross(forward, LockedRight(forward)))

\* if keys[...]: camera.lock_offset += / -= axis * orbital_speed
OrbitIf(pressed, lock_offset, axis, sign, orbital_speed) ==
    IF pressed THEN VAdd(lock_offset, VScale(Along(axis, orbital_speed), sign))
    ELSE lock_offset
\* if keys[K_q]: zoom out;  if keys[K_e]: zoom in, then the clamp.
ZoomOutIf(pressed, lock_offset, zoom) ==
    IF pressed THEN VAdd(lock_offset, Along(ZoomDirection(lock_offset), zoom))
    ELSE lock_offset
ZoomInIf(pressed, lock_offset, zoom) ==
    IF pressed THEN ClampOffset(VSub(lock_offset, Along(ZoomDirection(lock_offset), zoom)))
    ELSE lock_offset

LockedOffset(lock_offset, keys, forward, orbital_speed, zoom) ==
    LET o1 == OrbitIf("w" \in keys, lock_offset, LockedUp(forward), 1, orbital_speed)
        o2 == OrbitIf("s" \in keys, o1, LockedUp(forward), -1, orbital_speed)
        o3 == OrbitIf("a" \in keys, o2, LockedRight(forward), -1, orbital_speed)
        o4 == OrbitIf("d" \in keys, o3, LockedRight(forward), 1, orbital_speed)
        o5 == ZoomOutIf("q" \in keys, o4, zoom)
    IN ZoomInIf("e" \in keys, o5, zoom)

handle_locked_camera_input(cam, keys, movement_speed_multiplier_, body) ==
    IF ~hasattr(cam, "lock_offset") THEN cam
    ELSE look_at([ cam EXCEPT !.lock_offset =
                       LockedOffset(cam.lock_offset, keys,
                                    LockedForward(VSub(body.position, cam.position)),
                                    TDiv(move_speed * movement_speed_multiplier_, Hundredths),
                                    TDiv(zoom_speed * movement_speed_multiplier_, Hundredths)) ],
                 body.position)

planetary_altitude == 100

\* SECTION 1 of handle_planetary_input: the planetary coordinate system is
\* initialised when the camera has no planetary_right.
PlanetaryInit(cam, anchor_normalized) ==
    IF hasattr(cam, "planetary_right") THEN cam
    ELSE LET up0 == VNeg(anchor_normalized)
             planetary_up == IF Norm(up0) > 0 THEN UnitOf(up0) ELSE axis_y
             right0 == UCross(planetary_up, world_up)
             planetary_right == IF Norm(right0) > 0 THEN UnitOf(right0) ELSE axis_x
         IN [ cam EXCEPT !.planetary_up = planetary_up,
                         !.planetary_right = planetary_right,
                         !.manual_rotation = eye3,
                         !.attrs = @ \cup { "planetary_up", "planetary_right",
                                            "manual_rotation" } ]

\* A/D rotating the position around planetary_right.
PlanetaryOrbit_about_right(cam, keys, body) ==
    IF "a" \in keys \/ "d" \in keys
    THEN LET rotation_dir == IF "d" \in keys THEN 1 ELSE -1
             relative_pos == VSub(cam.position, body.position)
             new_relative_pos == rotate_vector_around_axis(relative_pos, cam.planetary_right,
                                                           StepAngle(rotation_dir))
         IN [ cam EXCEPT !.position = VAdd(body.position, new_relative_pos) ]
    ELSE cam

\* SECTION 2: A/D rotate the position around planetary_up.
PlanetaryOrbit(cam, keys, body) ==
    IF "a" \in keys \/ "d" \in keys
    THEN LET rotation_dir == IF "d" \in keys THEN 1 ELSE -1
             relative_pos == VSub(cam.position, body.position)
             new_relative_pos == rotate_vector_around_axis(relative_pos, cam.planetary_up,
                                                           StepAngle(rotation_dir))
         IN [ cam EXCEPT !.position = VAdd(body.position, new_relative_pos) ]
    ELSE cam

\* SECTION 3: the arrow keys accumulate into manual_rotation, pitch first.
PlanetaryLook(cam, keys) ==
    LET yaw_matrix ==
            IF "left" \in keys \/ "right" \in keys
            THEN rotation_matrix_from_axis_angle(cam.planetary_up,
                     StepAngle(IF "right" \in keys THEN 1 ELSE -1))
            ELSE eye3
        local_right ==
            IF Norm(cam.right) > 0 THEN cam.right
            ELSE LET c == UCross(cam.forward, cam.planetary_up)
                 IN IF Norm(c) > 0 THEN UnitOf(c) ELSE cam.planetary_right
        pitch_matrix ==
            IF "up" \in keys \/ "down" \in keys
            THEN rotation_matrix_from_axis_angle(local_right,
                     StepAngle(IF "up" \in keys THEN -1 ELSE 1))
            ELSE eye3
        combined_rotation == MatMul(pitch_matrix, yaw_matrix)
    IN [ cam EXCEPT !.manual_rotation = MatMul(combined_rotation, cam.manual_rotation) ]

\* SECTION 4: forward, right and up from manual_rotation and the planetary
\* basis, re-orthogonalised by Gram-Schmidt.
PlanetaryOrient(cam) ==
    LET bf0 == UCross(cam.planetary_right, cam.planetary_up)
        base_forward == IF Norm(bf0) > 0 THEN UnitOf(bf0) ELSE axis_z
        final_forward == UnitOf(MatVec(cam.manual_rotation, base_forward))
        fr0 == MatVec(cam.manual_rotation, cam.planetary_right)
        final_right == UnitOf(VSub(fr0, Along(final_forward, UDot(fr0, final_forward))))
        final_up == UnitOf(UCross(final_forward, final_right))
    IN [ cam EXCEPT !.forward = final_forward, !.right = final_right, !.up = final_up ]

\* SECTION 5: W/S walk along the view direction projected on the tangent
\* plane; planetary_up follows the new position, planetary_right stays.
PlanetaryWalk(cam, keys, body) ==
    IF "w" \in keys \/ "s" \in keys
    THEN LET view_direction == cam.forward
             projection_scalar == UDot(view_direction, cam.planetary_up)
             md0 == VSub(view_direction, Along(cam.planetary_up, projection_scalar))
             movement_direction == IF Norm(md0) > 0 THEN UnitOf(md0) ELSE cam.planetary_right
             movement_dir == IF "w" \in keys THEN 1 ELSE -1
             ra0 == UCross(cam.planetary_up, movement_direction)
             rotation_axis == IF Norm(ra0) > 0 THEN UnitOf(ra0) ELSE cam.planetary_right
             relative_pos == VSub(cam.position, body.position)
             new_relative_pos == rotate_vector_around_axis(relative_pos, rotation_axis,
                                                           StepAngle(movement_dir))
             position == VAdd(body.position, new_relative_pos)
             new_anchor_vector == VSub(body.position, position)
         IN [ cam EXCEPT !.position = position,
                         !.planetary_up = IF Norm(new_anchor_vector) > 0
                                          THEN UnitOf(VNeg(UnitOf(new_anchor_vector)))
                                          ELSE @ ]
    ELSE cam

\* SECTION 6: a tenth of the distance error is corrected when the error is
\* more than a hundredth of the target distance.
\* Section 6 without its correction.
PlanetaryDistance_uncorrected(cam, body) == cam

PlanetaryDistance(cam, body) ==
    LET new_anchor_vector == VSub(body.position, cam.position)
        new_distance == Norm(new_anchor_vector)
        target_distance == body.radius + planetary_altitude
        distance_error == new_distance - target_distance
        correction_amount == TDiv(distance_error, 10)
    IN IF new_distance > 0 /\ Abs(distance_error) * 100 > target_distance
       THEN [ cam EXCEPT !.position =
                  VSub(body.position,
                       Along(UnitOf(new_anchor_vector), new_distance - correction_amount)) ]
       ELSE cam

handle_planetary_input(cam, keys, movement_speed_multiplier_, body) ==
    LET anchor_vector == VSub(body.position, cam.position)
    IN IF Norm(anchor_vector) = 0 THEN cam
       ELSE LET c1 == PlanetaryInit(cam, UnitOf(anchor_vector))
                c2 == PlanetaryOrbit(c1, keys, body)
                c3 == PlanetaryLook(c2, keys)
                c4 == PlanetaryOrient(c3)
                c5 == PlanetaryWalk(c4, keys, body)
            IN PlanetaryDistance(c5, body)

----------------------------------------------------------------------------
(* main.py: the scene, the references to bodies, the commands *)

\* create_solar_system(), restricted to the Sun and the Earth (the planet whose
\* inclination is 0).
create_solar_system ==
    << Body("Sun", 1000000, << 0, 0, 0 >>, << 0, 0, 0 >>, 800),
       Body("Earth", 3, << 14960, 0, 0 >>, << 0, 0, 257 >>, 300) >>

north_pole_altitude == 7
time_multiplier_max == 10000
time_multiplier_min == 1
movement_speed_max == 1000
movement_speed_min == 10

\* A reference to a Body object: the object is bodies[id] of the list that
\* was current when generation was gen.  A reset replaces the list by new
\* objects; an object of an earlier list is no longer advanced by
\* update_physics, and the reference then carries it as snap.
NoBody == Body("", 0, Zero3, Zero3, 0)
None == [ id |-> 0, gen |-> 0, snap |-> NoBody ]
Ref(i, gen) == [ id |-> i, gen |-> gen, snap |-> NoBody ]
IsSet(ref) == ref.id # 0
SameBody(r1, r2) == r1.id = r2.id /\ r1.gen = r2.gen
DerefIn(ref, bs, gen) == IF ref.gen = gen THEN bs[ref.id] ELSE ref.snap
Detach(ref, bs, gen) ==
    IF IsSet(ref) /\ ref.gen = gen THEN [ ref EXCEPT !.snap = bs[ref.id] ] ELSE ref

\* pygame.mouse.get_pos(): a corner of the window, or the place where a body
\* of the list is drawn, when that is inside the window.
MouseChoices(bs, cam) ==
    { << 0, 0 >> } \cup
    { << project_3d_to_2d(bs[i].position, cam, WIDTH, HEIGHT).screen_x,
         project_3d_to_2d(bs[i].position, cam, WIDTH, HEIGHT).screen_y >> :
      i \in { j \in 1..Len(bs) :
                LET pr == project_3d_to_2d(bs[j].position, cam, WIDTH, HEIGHT)
                IN /\ 0 <= pr.screen_x /\ pr.screen_x < WIDTH
                   /\ 0 <= pr.screen_y /\ pr.screen_y < HEIGHT } }

Hovered(mouse_pos, bs, cam, gen) ==
    LET hovered_body == check_hover(mouse_pos, bs, cam, WIDTH, HEIGHT)
    IN IF hovered_body # 0 THEN Ref(hovered_body, gen) ELSE None

\* K_l: locked_body, planetary_body
lock_after_L(hovered) == hovered
planetary_after_L(hovered) == None

\* K_p: planetary_body, locked_body
planetary_after_P(hovered) == hovered
\* A K_p that leaves the lock as it is.
lock_after_P_kept(hovered, locked) == locked
lock_after_P(hovered, locked) == None

\* K_p: the loop over four attribute names, none of which the program sets.
PlanetaryAttrsCleared(cam) ==
    [ cam EXCEPT !.attrs = @ \ { "planetary_initial_forward", "planetary_initial_anchor",
                                 "planetary_initial_pitch", "planetary_initial_yaw" } ]

\* K_p with a planetary body: the camera is put at the north pole and its
\* orientation and planetary coordinate system are assigned.
NorthPoleCamera(cam, body) ==
    LET north_pole_offset == << 0, body.radius + north_pole_altitude, 0 >>
        position == VAdd(body.position, north_pole_offset)
        planetary_up_vector == axis_y
        up == UnitOf(planetary_up_vector)
        forward == UnitOf(VNeg(planetary_up_vector))
        right0 == UCross(up, forward)
        right == IF Norm(right0) > 0 THEN UnitOf(right0) ELSE axis_x
        radial_vector == VSub(position, body.position)
    IN [ cam EXCEPT !.position = position, !.up = up, !.forward = forward, !.right = right,
                    !.planetary_up = IF Norm(radial_vector) > 0 THEN UnitOf(radial_vector)
                                                                ELSE axis_y,
                    !.planetary_right = axis_x,
                    !.manual_rotation = eye3,
                    !.attrs = @ \cup { "planetary_up", "planetary_right", "manual_rotation" } ]

----------------------------------------------------------------------------
(* main.py: one frame after its commands: continuous input, one physics     *)
(* step unless paused, the camera-follow adjustment, the rendering.         *)

KeySets == { {}, {"w"}, {"a"}, {"s"}, {"d"}, {"q"}, {"e"},
             {"left"}, {"right"}, {"up"}, {"down"} }

\* "Handle continuous input"
ContinuousInput(cam, keys, msm, locked, planetary, bs, gen) ==
    IF IsSet(locked)
    THEN handle_locked_camera_input(cam, keys, msm, DerefIn(locked, bs, gen))
    ELSE IF IsSet(planetary)
    THEN handle_planetary_input(cam, keys, msm, DerefIn(planetary, bs, gen))
    ELSE handle_camera_input(cam, keys, msm)

\* A frame that leaves the camera where the input handling put it.
FollowPlanetary_still(cam, old_planetary_position, new_planetary_position) == cam
\* "Apply planetary body movement to camera"
FollowPlanetary(cam, old_planetary_position, new_planetary_position) ==
    [ cam EXCEPT !.position = VAdd(@, VSub(new_planetary_position, old_planetary_position)) ]

\* A lock update that captures the offset and leaves the camera where it is.
FollowLocked_still(cam, body) ==
    [ cam EXCEPT !.lock_offset = IF hasattr(cam, "lock_offset") THEN cam.lock_offset
                                 ELSE VSub(cam.position, body.position),
                 !.attrs = @ \cup { "lock_offset" } ]

\* "Update camera lock", locked: the offset is captured when the camera has
\* none, and the camera is put at the body plus the offset.
FollowLocked(cam, body) ==
    LET lock_offset == IF hasattr(cam, "lock_offset") THEN cam.lock_offset
                       ELSE VSub(cam.position, body.position)
    IN [ cam EXCEPT !.lock_offset = lock_offset,
                    !.attrs = @ \cup { "lock_offset" },
                    !.position = VAdd(body.position, lock_offset) ]

\* "Update camera lock", planetary: pass.
FollowPlanetaryMode(cam) == cam

\* "Update camera lock", neither: the lock offset is deleted.
ClearLockOffset(cam) ==
    [ cam EXCEPT !.lock_offset = Zero3, !.attrs = @ \ { "lock_offset" } ]

\* A frame that runs the physics step whether paused or not.
FrameBodies_unpaused(bs, is_paused, tm) == update_physics(bs, tm)
\* The bodies at the end of a frame.
FrameBodies(bs, is_paused, tm) == IF is_paused THEN bs ELSE update_physics(bs, tm)

\* "Apply planetary body movement to camera", when not paused and in
\* planetary mode; bs and bs2 are the list before and after the physics step.
MovedWithPlanet(cam, planetary, bs, bs2, gen, is_paused) ==
    IF ~is_paused /\ IsSet(planetary)
    THEN FollowPlanetary(cam, DerefIn(planetary, bs, gen).position,
                              DerefIn(planetary, bs2, gen).position)
    ELSE cam

\* "Update camera lock"
UpdateCameraLock(cam, locked, planetary, bs2, gen) ==
    IF IsSet(locked) THEN FollowLocked(cam, DerefIn(locked, bs2, gen))
    ELSE IF IsSet(planetary) THEN FollowPlanetaryMode(cam)
    ELSE ClearLockOffset(cam)

\* The camera at the end of a frame: the continuous input, then the
\* adjustments that follow the physics step.
FrameCameraAfter(c1, locked, planetary, bs, bs2, gen, is_paused) ==
    UpdateCameraLock(MovedWithPlanet(c1, planetary, bs, bs2, gen, is_paused),
                     locked, planetary, bs2, gen)

FrameCamera(cam, keys, msm, locked, planetary, bs, gen, is_paused, tm) ==
    FrameCameraAfter(ContinuousInput(cam, keys, msm, locked, planetary, bs, gen),
                     locked, planetary, bs, FrameBodies(bs, is_paused, tm), gen, is_paused)

\* What a rendered frame shows of the lock: the body and the camera's
\* position relative to it.
Shown(cam, locked, bs, gen) ==
    IF IsSet(locked)
    THEN [ locked |-> [ id |-> locked.id, gen |-> locked.gen ],
           rel |-> VSub(cam.position, DerefIn(locked, bs, gen).position),
           body_position |-> DerefIn(locked, bs, gen).position ]
    ELSE [ locked |-> [ id |-> 0, gen |-> 0 ], rel |-> Zero3, body_position |-> Zero3 ]

NoCall == [ op |-> "none" ]

NoEntry == [ stage |-> "none", position |-> Zero3, body_position |-> Zero3, from |-> "none" ]

CommandGhosts ==
    /\ rendered' = FALSE
    /\ nevents' = nevents + 1
    /\ UNCHANGED << last_keys, shown, prev_shown, nframes, nkeyframes, nsteps, grown, call >>

Frame(keys) ==
    /\ nframes < MaxFrames
    /\ keys # {} => nkeyframes < MaxKeyFrames
    /\ CameraFinite(camera)
    /\ bodies' = FrameBodies(bodies, paused, time_multiplier)
    /\ camera' = FrameCamera(camera, keys, movement_speed_multiplier, locked_body,
                             planetary_body, bodies, generation, paused, time_multiplier)
    /\ rendered' = TRUE
    /\ last_keys' = keys
    /\ prev_shown' = shown
    /\ shown' = Shown(camera', locked_body, bodies', generation)
    /\ entry' = IF entry.stage = "pending" THEN [ entry EXCEPT !.stage = "first" ] ELSE NoEntry
    /\ after_reset' = IF after_reset = "pending" THEN "first" ELSE "none"
    /\ nframes' = nframes + 1
    /\ nkeyframes' = IF keys # {} THEN nkeyframes + 1 ELSE nkeyframes
    /\ grown' = IF paused THEN grown ELSE GrownTrails(bodies, time_multiplier)
    /\ UNCHANGED << paused, time_multiplier, movement_speed_multiplier, locked_body,
                    planetary_body, generation, nevents, nsteps, call >>

\* K_SPACE
KeySpace ==
    /\ nevents < MaxEvents
    /\ CameraFinite(camera)
    /\ paused' = ~paused
    /\ CommandGhosts
    /\ UNCHANGED << bodies, camera, time_multiplier, movement_speed_multiplier, locked_body,
                    planetary_body, generation, entry, after_reset >>

Mode == IF IsSet(locked_body) THEN "locked" ELSE IF IsSet(planetary_body) THEN "planetary"
        ELSE "free"

\* K_l
KeyL(mouse_pos) ==
    LET hovered == Hovered(mouse_pos, bodies, camera, generation)
    IN /\ nevents < MaxEvents
       /\ CameraFinite(camera)
       /\ locked_body' = lock_after_L(hovered)
       /\ planetary_body' = planetary_after_L(hovered)
       /\ entry' = IF ~IsSet(locked_body') THEN NoEntry
                   ELSE IF SameBody(locked_body', locked_body) THEN entry
                   ELSE [ stage |-> "pending", position |-> camera.position,
                          body_position |-> DerefIn(locked_body', bodies, generation).position,
                          from |-> Mode ]
       /\ after_reset' = "none"
       /\ CommandGhosts
       /\ UNCHANGED << bodies, camera, paused, time_multiplier, movement_speed_multiplier,
                       generation >>

\* K_p
KeyP(mouse_pos) ==
    LET hovered == Hovered(mouse_pos, bodies, camera, generation)
        cleared == PlanetaryAttrsCleared(camera)
    IN /\ nevents < MaxEvents
       /\ CameraFinite(camera)
       /\ planetary_body' = planetary_after_P(hovered)
       /\ locked_body' = lock_after_P(hovered, locked_body)
       /\ camera' = IF ~IsSet(locked_body') /\ IsSet(planetary_body')
                    THEN NorthPoleCamera(cleared, DerefIn(planetary_body', bodies, generation))
                    ELSE cleared
       /\ entry' = IF IsSet(locked_body') THEN entry ELSE NoEntry
       /\ after_reset' = "none"
       /\ CommandGhosts
       /\ UNCHANGED << bodies, paused, time_multiplier, movement_speed_multiplier,
                       generation >>

\* K_r
KeyR ==
    /\ nevents < MaxEvents
    /\ CameraFinite(camera)
    /\ bodies' = create_solar_system
    /\ time_multiplier' = TIME_MULTIPLIER
    /\ movement_speed_multiplier' = Hundredths
    /\ generation' = generation + 1
    /\ locked_body' = Detach(locked_body, bodies, generation)
    /\ planetary_body' = Detach(planetary_body, bodies, generation)
    /\ after_reset' = "pending"
    /\ CommandGhosts
    /\ UNCHANGED << camera, paused, entry >>

\* "Speed up time", "Slow down time"
speed_up_uncapped(tm) == tm * 2
speed_up(tm) == Min(tm * 2, time_multiplier_max)
slow_down(tm) == Max(TDiv(tm * 2, 3), time_multiplier_min)

\* K_PLUS, K_EQUALS
KeyPlus ==
    /\ nevents < MaxEvents
    /\ CameraFinite(camera)
    /\ time_multiplier' = speed_up(time_multiplier)
    /\ CommandGhosts
    /\ UNCHANGED << bodies, camera, paused, movement_speed_multiplier, locked_body,
                    planetary_body, generation, entry, after_reset >>

\* K_MINUS
KeyMinus ==
    /\ nevents < MaxEvents
    /\ CameraFinite(camera)
    /\ time_multiplier' = slow_down(time_multiplier)
    /\ CommandGhosts
    /\ UNCHANGED << bodies, camera, paused, movement_speed_multiplier, locked_body,
                    planetary_body, generation, entry, after_reset >>

\* K_PERIOD
KeyPeriod ==
    /\ nevents < MaxEvents
    /\ CameraFinite(camera)
    /\ movement_speed_multiplier' = Min(TDiv(movement_speed_multiplier * 3, 2), movement_speed_max)
    /\ CommandGhosts
    /\ UNCHANGED << bodies, camera, paused, time_multiplier, locked_body,
                    planetary_body, generation, entry, after_reset >>

\* K_COMMA
KeyComma ==
    /\ nevents < MaxEvents
    /\ CameraFinite(camera)
    /\ movement_speed_multiplier' = Max(TDiv(movement_speed_multiplier * 2, 3), movement_speed_min)
    /\ CommandGhosts
    /\ UNCHANGED << bodies, camera, paused, time_multiplier, locked_body,
                    planetary_body, generation, entry, after_reset >>

Init ==
    /\ bodies = create_solar_system
    /\ camera = Camera
    /\ paused = FALSE
    /\ time_multiplier = TIME_MULTIPLIER
    /\ movement_speed_multiplier = Hundredths
    /\ locked_body = None
    /\ planetary_body = None
    /\ generation = 0
    /\ rendered = FALSE
    /\ last_keys = {}
    /\ shown = Shown(Camera, None, create_solar_system, 0)
    /\ prev_shown = Shown(Camera, None, create_solar_system, 0)
    /\ entry = NoEntry
    /\ after_reset = "none"
    /\ nframes = 0
    /\ nevents = 0
    /\ nkeyframes = 0
    /\ nsteps = 0
    /\ grown = << >>
    /\ call = NoCall

Next ==
    \/ \E keys \in KeySets : Frame(keys)
    \/ KeySpace
    \/ \E mouse_pos \in MouseChoices(bodies, camera) : KeyL(mouse_pos)
    \/ \E mouse_pos \in MouseChoices(bodies, camera) : KeyP(mouse_pos)
    \/ KeyR
    \/ KeyPlus
    \/ KeyMinus
    \/ KeyPeriod
    \/ KeyComma

Spec == Init /\ [][Next]_vars

----------------------------------------------------------------------------
(* Properties of the camera modes in the frame loop. *)

\* Rounding allowed between two unit vectors or two products of them.
DirectionTolerance == UNIT \div 500
BasisTolerance == (UNIT * UNIT) \div 50

LockedBody == DerefIn(locked_body, bodies, generation)
PlanetaryFields == { "planetary_up", "planetary_right", "manual_rotation" }
Close(u, v) == \A k \in 1..3 : Abs(u[k] - v[k]) <= DirectionTolerance

\* C1: in every state of the frame loop, whatever L and P commands were
\* given, locked_body and planetary_body are never both set.
C1_ModesExclusive == ~(IsSet(locked_body) /\ IsSet(planetary_body))

\* P was handled with a body hovered while the camera was locked: the
\* camera still carries the lock offset, and only planetary_body is set.
C1_Witness ==
    /\ IsSet(planetary_body)
    /\ ~IsSet(locked_body)
    /\ hasattr(camera, "lock_offset")

\* C2: at the first rendered frame after an entry into Locked(B), the lock
\* offset is the camera's position at the entry minus B's position (taken
\* when L was handled or when the first follow adjustment ran).
C2_OffsetCapturedOnEntry ==
    (rendered /\ entry.stage = "first" /\ IsSet(locked_body))
        => /\ hasattr(camera, "lock_offset")
           /\ camera.lock_offset \in { VSub(entry.position, entry.body_position),
                                       VSub(entry.position, LockedBody.position) }

\* C3: at the end of every frame in which the mode is not Locked, the camera
\* carries no lock_offset.
C3_OffsetDiscarded ==
    (rendered /\ ~IsSet(locked_body)) => ~hasattr(camera, "lock_offset")

\* C4: at the end of every frame in which the mode is not Planetary, the
\* camera carries none of planetary_up, planetary_right, manual_rotation.
C4_PlanetaryFieldsDiscarded ==
    (rendered /\ ~IsSet(planetary_body)) => camera.attrs \cap PlanetaryFields = {}

\* C5: at the first rendered frame after a reset, no key being held in that
\* frame, the body list is the initial scene (advanced by that frame's
\* physics step at most) and the camera's position and orientation are the
\* initial ones.
C5_ResetRestoresAll ==
    (rendered /\ after_reset = "first" /\ last_keys = {})
        => /\ bodies \in { create_solar_system,
                           update_physics(create_solar_system, time_multiplier) }
           /\ camera.position = Camera.position
           /\ camera.forward = Camera.forward
           /\ camera.up = Camera.up
           /\ camera.right = Camera.right

\* C6: in Locked(B) with no key held, camera.position - B.position at the
\* end of a frame is what it was at the end of the frame before.
C6_OffsetPreserved ==
    (rendered /\ last_keys = {} /\ shown.locked.id # 0 /\ shown.locked = prev_shown.locked)
        => shown.rel = prev_shown.rel

\* Two consecutive frames locked on the same body, the second without
\* keys, between which the physics step moved the body.
C6_Witness ==
    /\ rendered /\ last_keys = {}
    /\ shown.locked.id # 0 /\ shown.locked = prev_shown.locked
    /\ shown.body_position # prev_shown.body_position
    /\ camera.position = VAdd(shown.body_position, shown.rel)

\* C7: at every rendered frame in Locked(B), camera.forward is the unit
\* vector from the rendered camera.position to B.position.
C7_FacesTarget ==
    (rendered /\ IsSet(locked_body))
        => Close(camera.forward, UnitOf(VSub(LockedBody.position, camera.position)))

\* C10: at every rendered frame forward, right and up are unit vectors,
\* pairwise perpendicular, and up = forward x right.
C10_OrthonormalBasis ==
    rendered =>
        /\ \A v \in { camera.forward, camera.right, camera.up } :
              Abs(Dot(v, v) - UNIT * UNIT) <= BasisTolerance
        /\ Abs(Dot(camera.forward, camera.right)) <= BasisTolerance
        /\ Abs(Dot(camera.forward, camera.up)) <= BasisTolerance
        /\ Abs(Dot(camera.right, camera.up)) <= BasisTolerance
        /\ \A k \in 1..3 :
              Abs(Cross(camera.forward, camera.right)[k] - UNIT * camera.up[k]) <= BasisTolerance

----------------------------------------------------------------------------
(* update_physics on its own: the integrator and its trail bookkeeping,    *)
(* stepped from scenes whose bodies move along the coordinate axes, where  *)
(* every norm the trail code takes is exact.  The time multipliers are     *)
(* values the +/- commands can reach: the floor, the default, the ceiling. *)

PhysicsScenes ==
    { << Body("Sun", 1000000, Zero3, Zero3, 800),
         Body("Earth", 3, Vec(14960, 0, 0), Vec(1000, 0, 0), 300) >>,
      << Body("A", 3, Zero3, Zero3, 300),
         Body("B", 3, Vec(14960, 0, 0), Vec(257, 0, 0), 300) >>,
      << Body("A", 3, Zero3, Vec(0, -500, 0), 300),
         Body("B", 3, Vec(0, 0, 14960), Vec(0, 0, 257), 300) >>,
      << Body("A", 1000, Zero3, Zero3, 7),
         Body("B", 1000, Vec(200, 0, 0), Zero3, 7) >>,
      << Body("A", 1, Vec(200, 0, 0), Vec(600, 0, 0), 7),
         Body("B", 1, Vec(200, 0, 0), Vec(-600, 0, 0), 7),
         Body("C", 100, Zero3, Zero3, 7) >> }

PhysicsMultipliers == { time_multiplier_min, TIME_MULTIPLIER, time_multiplier_max }

InitPhysics ==
    /\ bodies \in PhysicsScenes
    /\ camera = Camera
    /\ paused = FALSE
    /\ time_multiplier = TIME_MULTIPLIER
    /\ movement_speed_multiplier = Hundredths
    /\ locked_body = None
    /\ planetary_body = None
    /\ generation = 0
    /\ rendered = FALSE
    /\ last_keys = {}
    /\ shown = Shown(Camera, None, create_solar_system, 0)
    /\ prev_shown = Shown(Camera, None, create_solar_system, 0)
    /\ entry = NoEntry
    /\ after_reset = "none"
    /\ nframes = 0
    /\ nevents = 0
    /\ nkeyframes = 0
    /\ nsteps = 0
    /\ grown = << >>
    /\ call = [ op |-> "update_physics", start |-> bodies, before |-> bodies,
                forces |-> << >>, tm |-> TIME_MULTIPLIER ]

PhysicsStep(tm) ==
    /\ nsteps < MaxPhysicsSteps
    /\ bodies' = update_physics(bodies, tm)
    /\ time_multiplier' = tm
    /\ grown' = GrownTrails(bodies, tm)
    /\ nsteps' = nsteps + 1
    /\ call' = [ call EXCEPT !.before = bodies, !.forces = AppliedFrom(bodies, 1, tm),
                             !.tm = tm ]
    /\ UNCHANGED << camera, paused, movement_speed_multiplier, locked_body, planetary_body,
                    generation, rendered, last_keys, shown, prev_shown, entry, after_reset,
                    nframes, nevents, nkeyframes >>

NextPhysics == \E tm \in PhysicsMultipliers : PhysicsStep(tm)

SpecPhysics == InitPhysics /\ [][NextPhysics]_vars

----------------------------------------------------------------------------
(* Properties of the trail bookkeeping. *)

\* C8: after any number of update_physics steps no body's trail holds more
\* than max_trail_length (100) points, and the points it holds are the
\* newest ones: what was removed was removed from the old end.
C8_TrailBounded ==
    \A i \in 1..Len(grown) :
        LET trail == bodies[i].trail
            excess == Max(Len(grown[i]) - max_trail_length, 0)
        IN /\ Len(trail) <= max_trail_length
           /\ trail = SubSeq(grown[i], excess + 1, Len(grown[i]))

\* A step whose trail generation left more than max_trail_length + 1
\* points, so that the truncation loop had to pop several of them.
C8_Witness ==
    /\ nsteps > 0
    /\ \E i \in 1..Len(grown) :
          /\ Len(grown[i]) > max_trail_length + 1
          /\ Len(bodies[i].trail) = max_trail_length

\* C9: in every body's trail, two consecutive points are at most
\* trail_distance_threshold apart.
C9_TrailSpacing ==
    \A i \in 1..Len(bodies) :
        \A k \in 1..(Len(bodies[i].trail) - 1) :
            Norm(VSub(bodies[i].trail[k + 1], bodies[i].trail[k])) <= trail_distance_threshold

\* A body that moved several thresholds in one step: its trail holds
\* intermediate points a threshold apart and a final, closer point.
C9_Witness ==
    /\ nsteps > 0
    /\ \E i \in 1..Len(bodies) :
          LET trail == bodies[i].trail
          IN /\ Len(trail) >= 4
             /\ trail[Len(trail)] = bodies[i].position
             /\ Norm(VSub(trail[Len(trail) - 1], trail[Len(trail) - 2])) = trail_distance_threshold
             /\ Norm(VSub(trail[Len(trail)], trail[Len(trail) - 1])) \in 1..(trail_distance_threshold - 1)

----------------------------------------------------------------------------
(* The camera rotations alone: any sequence of rotate_yaw, rotate_pitch and
   rotate_roll calls from an orthonormal frame.  The angles are the quarter
   turns, the half turn and the two angles of the 3-4-5 triangle, whose
   cosine and sine are exact in thousandths. *)

MaxRotations == 3

RotationAngles ==
    { StepAngle(1), StepAngle(-1),
      [ cos |-> -UNIT, sin |-> 0 ],
      [ cos |-> 3 * (UNIT \div 5), sin |-> 4 * (UNIT \div 5) ],
      [ cos |-> 4 * (UNIT \div 5), sin |-> -3 * (UNIT \div 5) ] }

\* Orthonormal frames with right = up x forward, as Camera() builds its own.
OrthonormalFrames ==
    { << axis_z, axis_y >>, << axis_x, axis_z >>, << VNeg(axis_y), axis_x >>,
      << Vec(3 * (UNIT \div 5), 0, 4 * (UNIT \div 5)), axis_y >> }

FrameOf(forward, up) ==
    [ Camera EXCEPT !.forward = forward, !.up = up, !.right = UnitOf(UCross(up, forward)) ]

InitRotation ==
    /\ \E frame \in OrthonormalFrames : camera = FrameOf(frame[1], frame[2])
    /\ bodies = << >>
    /\ paused = FALSE
    /\ time_multiplier = TIME_MULTIPLIER
    /\ movement_speed_multiplier = Hundredths
    /\ locked_body = None
    /\ planetary_body = None
    /\ generation = 0
    /\ rendered = FALSE
    /\ last_keys = {}
    /\ shown = Shown(Camera, None, << >>, 0)
    /\ prev_shown = Shown(Camera, None, << >>, 0)
    /\ entry = NoEntry
    /\ after_reset = "none"
    /\ nframes = 0
    /\ nevents = 0
    /\ nkeyframes = 0
    /\ nsteps = 0
    /\ grown = << >>
    /\ call = NoCall

RotationCall(op, angle, cam) ==
    /\ nsteps < MaxRotations
    /\ camera' = cam
    /\ call' = [ op |-> op, angle |-> angle ]
    /\ nsteps' = nsteps + 1
    /\ UNCHANGED << bodies, paused, time_multiplier, movement_speed_multiplier, locked_body,
                    planetary_body, generation, rendered, last_keys, shown, prev_shown,
                    entry, after_reset, nframes, nevents, nkeyframes, grown >>

RotateYaw(angle) == RotationCall("rotate_yaw", angle, rotate_yaw(camera, angle))
RotatePitch(angle) == RotationCall("rotate_pitch", angle, rotate_pitch(camera, angle))
RotateRoll(angle) == RotationCall("rotate_roll", angle, rotate_roll(camera, angle))

NextRotation ==
    \/ \E angle \in RotationAngles : RotateYaw(angle)
    \/ \E angle \in RotationAngles : RotatePitch(angle)
    \/ \E angle \in RotationAngles : RotateRoll(angle)

SpecRotation == InitRotation /\ [][NextRotation]_vars

\* C11: from an orthonormal frame, after any sequence of rotate_yaw,
\* rotate_pitch and rotate_roll calls, forward, right and up have length 1
\* and are pairwise perpendicular (to the rounding of the thousandths).
C11_RotationsKeepFrame ==
    /\ \A v \in { camera.forward, camera.right, camera.up } :
          Abs(Dot(v, v) - UNIT * UNIT) <= BasisTolerance
    /\ Abs(Dot(camera.forward, camera.right)) <= BasisTolerance
    /\ Abs(Dot(camera.forward, camera.up)) <= BasisTolerance
    /\ Abs(Dot(camera.right, camera.up)) <= BasisTolerance

\* A frame turned by all the allowed calls, about an angle that is no
\* quarter turn, so that no axis of it lies along a world axis.
C11_Witness ==
    /\ nsteps = MaxRotations
    /\ call.op = "rotate_roll"
    /\ call.angle.cos \notin { 0, UNIT, -UNIT }
    /\ \A v \in { camera.forward, camera.right, camera.up } : \A k \in 1..3 : v[k] # 0

----------------------------------------------------------------------------
(* Properties of the integration step. *)

\* C12: for bodies of equal mass that started at rest, the forces one
\* update_physics step applies to a pair are equal and opposite (the force
\* on A from B is the negative of the force on B from A), and the total
\* momentum, the sum of mass x velocity, is zero after every step.  A
\* hundredth of the force is allowed for rounding.
C12_EqualAndOpposite ==
    LET start == call.start
        forces == call.forces
        momentum(k) == bodies[1].mass * bodies[1].velocity[k] + bodies[2].mass * bodies[2].velocity[k]
    IN (/\ nsteps > 0
        /\ Len(start) = 2
        /\ start[1].mass = start[2].mass
        /\ start[1].velocity = Zero3 /\ start[2].velocity = Zero3)
       => /\ \A k \in 1..3 :
                Abs(forces[1].from[2][k] + forces[2].from[1][k]) * Hundredths
                    <= Norm(forces[1].from[2])
          /\ \A k \in 1..3 :
                Abs(momentum(k)) * Hundredths <= bodies[1].mass * Norm(bodies[1].velocity)

\* C13: update_physics advances every body by one step of DT x
\* time_multiplier, semi-implicit Euler: the velocity is increased by
\* (net force / mass) x dt, then the position by the new velocity x dt.
C13_SemiImplicitEuler ==
    nsteps > 0 =>
        \A i \in 1..Len(bodies) :
            LET old == call.before[i]
                acceleration == VDiv(call.forces[i].net, old.mass)
                dt == DT * call.tm
            IN /\ bodies[i].velocity
                    = VAdd(old.velocity, VDiv(VScale(acceleration, dt), Hundredths))
               /\ bodies[i].position
                    = VAdd(old.position, VDiv(VScale(bodies[i].velocity, dt), Hundredths))

\* A step of a body that was moving and was pulled: its velocity changed,
\* and its position moved by the changed velocity.
C13_Witness ==
    /\ nsteps > 0
    /\ \E i \in 1..Len(bodies) :
          /\ call.before[i].velocity # Zero3
          /\ call.forces[i].net # Zero3
          /\ bodies[i].velocity # call.before[i].velocity
          /\ bodies[i].position # call.before[i].position

----------------------------------------------------------------------------
(* scripts/system_loader.py, with Body.__init__ in full.

   Angles are integers: radians in units of 1/AngleUnit, degrees in units of
   1/AngleUnit of a degree.  np.degrees and np.radians multiply by 180/pi and
   pi/180 (pi = 3.142) and truncate; cosine and sine are their Taylor
   polynomials, exact to a thousandth for the inclinations of the scene
   (below 0.5 rad).  A colour is a tuple of three channels.  A file is absent,
   or text that is no JSON, or the JSON of a config record; JSON text keeps
   numbers, strings and lists as they are and turns a tuple into a list, and
   a record that lacks a key is a dict that lacks it.  Colour data is one of
   [type "hex", channels], a "#" string whose three digit pairs parse to the
   channels, or with channels << >> when they do not parse;
   [type "name", name]; [type "list", items]; [type "other"], a number. *)

AngleUnit == 10 * UNIT
distance_scale == 10
default_radius == 10

degrees(r) == MulDiv(180 * UNIT, r, 3142)
radians(d) == (d * 3142) \div (180 * UNIT)

\* The rotation of _apply_inclination, about the x axis, of one vector.
apply_inclination(v, inclination) ==
    LET cos_i == UNIT - (inclination * inclination) \div (2 * AngleUnit * (AngleUnit \div UNIT))
        sin_i == inclination \div (AngleUnit \div UNIT)
                   - (((inclination * inclination) \div UNIT) * inclination)
                       \div (6 * UNIT * UNIT)
    IN IF inclination # 0
       THEN << v[1], TDiv(v[2] * cos_i - v[3] * sin_i, UNIT),
                     TDiv(v[2] * sin_i + v[3] * cos_i, UNIT) >>
       ELSE v

\* Body.__init__ with every argument.
NewBody(name, mass, position, velocity, radius, color, inclination) ==
    [ name |-> name, mass |-> mass,
      position |-> apply_inclination(position, inclination),
      velocity |-> apply_inclination(velocity, inclination),
      radius |-> radius, color |-> color, inclination |-> inclination, trail |-> << >> ]

SUN_COLOR == << 255, 255, 100 >>
EARTH_COLOR == << 100, 150, 255 >>
JUPITER_COLOR == << 255, 200, 150 >>
COLOR_MAP == [ n \in { "Sun", "Earth", "Jupiter" } |->
                 IF n = "Sun" THEN SUN_COLOR ELSE IF n = "Earth" THEN EARTH_COLOR
                 ELSE JUPITER_COLOR ]

\* parse_color: the parsed colour, or the ValueError it raises.
parse_color(color_data) ==
    IF color_data.type = "hex"
    THEN IF Len(color_data.channels) = 3
         THEN [ raised |-> "none", color |-> color_data.channels ]
         ELSE [ raised |-> "ValueError" ]
    ELSE IF color_data.type = "name"
    THEN IF color_data.name \in DOMAIN COLOR_MAP
         THEN [ raised |-> "none", color |-> COLOR_MAP[color_data.name] ]
         ELSE [ raised |-> "ValueError" ]
    ELSE IF color_data.type = "list" /\ Len(color_data.items) = 3
    THEN [ raised |-> "none", color |-> color_data.items ]
    ELSE [ raised |-> "ValueError" ]

\* create_default_solar_system(), restricted to the Sun, the Earth and
\* Jupiter (inclination 1.3 degrees).
create_default_solar_system ==
    << NewBody("Sun", 1000000, << 0, 0, 0 >>, << 0, 0, 0 >>, 80 * distance_scale,
               SUN_COLOR, 0),
       NewBody("Earth", 3, << 14960, 0, 0 >>, << 0, 0, 257 >>, 30 * distance_scale,
               EARTH_COLOR, radians(0)),
       NewBody("Jupiter", 954, << 77850, 0, 0 >>, << 0, 0, 113 >>, 60 * distance_scale,
               JUPITER_COLOR, radians(13 * (AngleUnit \div 10))) >>

\* The body of the loop "for body_data in config.get('bodies', [])": the
\* Body built, or the exception that leaves the loop.
LoadBody(body_data, scale, default_color) ==
    IF ~({ "name", "mass", "position", "velocity" } \subseteq DOMAIN body_data)
    THEN [ raised |-> "KeyError" ]
    ELSE LET radius == (IF "radius" \in DOMAIN body_data THEN body_data.radius
                        ELSE default_radius * UNIT) * scale
             color_data == IF "color" \in DOMAIN body_data THEN body_data.color
                           ELSE default_color
             parsed == parse_color(color_data)
             fallback == parse_color(default_color)
             inclination == IF "inclination" \in DOMAIN body_data
                            THEN radians(body_data.inclination) ELSE radians(0)
         IN IF parsed.raised = "none"
            THEN [ raised |-> "none",
                   body |-> NewBody(body_data.name, body_data.mass, body_data.position,
                                    body_data.velocity, radius \div UNIT, parsed.color,
                                    inclination) ]
            ELSE IF fallback.raised = "none"
            THEN [ raised |-> "none",
                   body |-> NewBody(body_data.name, body_data.mass, body_data.position,
                                    body_data.velocity, radius \div UNIT, fallback.color,
                                    inclination) ]
            ELSE [ raised |-> "Exception" ]

\* A loader that replaces a body it cannot build by the body of the default
\* scene at the same place in the list.
load_solar_system_substituting(file) ==
    IF file.kind # "json" \/ "bodies" \notin DOMAIN file.config THEN create_default_solar_system
    ELSE LET data == file.config.bodies
             loaded == [ i \in 1..Len(data) |->
                           LoadBody(data[i], distance_scale, file.config.default_color) ]
         IN [ i \in 1..Len(data) |->
                IF loaded[i].raised = "none" THEN loaded[i].body
                ELSE create_default_solar_system[i] ]

\* load_solar_system: the list returned.  An exception raised for any body
\* leaves the loop and returns the default scene.
load_solar_system(file) ==
    IF file.kind # "json" THEN create_default_solar_system
    ELSE LET config == file.config
             scale == IF "distance_scale" \in DOMAIN config THEN config.distance_scale
                      ELSE distance_scale
             default_color == IF "default_color" \in DOMAIN config THEN config.default_color
                              ELSE [ type |-> "list", items |-> << 255, 255, 255 >> ]
             data == IF "bodies" \in DOMAIN config THEN config.bodies ELSE << >>
             loaded == [ i \in 1..Len(data) |-> LoadBody(data[i], scale, default_color) ]
         IN IF \E i \in 1..Len(data) : loaded[i].raised # "none"
            THEN create_default_solar_system
            ELSE [ i \in 1..Len(data) |-> loaded[i].body ]

\* save_solar_system: the file written.  The radius is written in units of
\* the distance scale, in thousandths.
save_solar_system(bs) ==
    [ kind |-> "json",
      config |->
        [ distance_scale |-> distance_scale,
          default_color |-> [ type |-> "list", items |-> << 255, 255, 255 >> ],
          bodies |-> [ i \in 1..Len(bs) |->
                         [ name |-> bs[i].name, mass |-> bs[i].mass,
                           position |-> bs[i].position, velocity |-> bs[i].velocity,
                           radius |-> (bs[i].radius * UNIT) \div distance_scale,
                           color |-> [ type |-> "list", items |-> bs[i].color ],
                           inclination |-> degrees(bs[i].inclination) ] ] ] ]

----------------------------------------------------------------------------
(* save_solar_system and load_solar_system alone: body lists are saved, and
   files are loaded that were saved or that hold damaged data. *)

MaxLoaderCalls == 3

LoaderScenes ==
    { create_default_solar_system,
      << NewBody("A", 3, << 14960, 0, 0 >>, << 0, 0, 257 >>, 300, << 1, 2, 3 >>, 0) >>,
      << NewBody("A", 954, << 5790, 0, 0 >>, << 0, 0, 414 >>, 150, EARTH_COLOR,
                 radians(7 * AngleUnit)),
         NewBody("B", 3, << 0, 2000, 1000 >>, << 50, 0, 0 >>, 25, << 0, 0, 0 >>,
                 radians(17 * AngleUnit)) >>,
      << NewBody("A", 3, << 100, 200, 300 >>, << 1, 2, 3 >>, 7, SUN_COLOR, 0),
         NewBody("B", 3, << 0, 0, 0 >>, << 0, 0, 0 >>, 7, SUN_COLOR, 0) >> }

ColorData ==
    { [ type |-> "hex", channels |-> << 255, 0, 16 >> ], [ type |-> "hex", channels |-> << >> ],
      [ type |-> "name", name |-> "Earth" ], [ type |-> "name", name |-> "Teal" ],
      [ type |-> "list", items |-> << 9, 8, 7 >> ], [ type |-> "list", items |-> << 9, 8 >> ],
      [ type |-> "other" ] }

\* Files: none, text that is no JSON, and the file saved for a list of three
\* bodies with one key of one body removed, or the colour of one body
\* replaced, or the default colour replaced too, or the list of bodies
\* removed.
LoaderFiles ==
    LET saved == save_solar_system(
                     << NewBody("A", 3, << 14960, 0, 0 >>, << 0, 0, 257 >>, 300, << 1, 2, 3 >>, 0),
                        NewBody("B", 954, << 77850, 0, 0 >>, << 0, 0, 113 >>, 600, << 4, 5, 6 >>, 0),
                        NewBody("C", 3, << 0, 0, 5000 >>, << 100, 0, 0 >>, 100, << 7, 8, 9 >>, 0) >>)
        data == saved.config.bodies
        without(r, key) == [ k \in DOMAIN r \ { key } |-> r[k] ]
    IN { [ kind |-> "absent" ], [ kind |-> "text" ], saved,
         [ saved EXCEPT !.config = without(@, "bodies") ] }
       \cup { [ saved EXCEPT !.config.bodies[i] = without(@, key) ] :
                 i \in 1..Len(data), key \in DOMAIN data[1] }
       \cup { [ saved EXCEPT !.config.bodies[i].color = color_data ] :
                 i \in 1..Len(data), color_data \in ColorData }
       \cup { [ saved EXCEPT !.config.default_color = default_color,
                             !.config.bodies[2].color = color_data ] :
                 default_color \in ColorData, color_data \in ColorData }
       \cup { [ saved EXCEPT !.config.default_color = default_color,
                             !.config.bodies[2] = without(@, "color") ] :
                 default_color \in ColorData }

InitLoader ==
    /\ bodies \in LoaderScenes
    /\ call \in { [ op |-> "none", file |-> file, saved |-> << >> ] : file \in LoaderFiles }
    /\ camera = Camera
    /\ paused = FALSE
    /\ time_multiplier = TIME_MULTIPLIER
    /\ movement_speed_multiplier = Hundredths
    /\ locked_body = None
    /\ planetary_body = None
    /\ generation = 0
    /\ rendered = FALSE
    /\ last_keys = {}
    /\ shown = Shown(Camera, None, << >>, 0)
    /\ prev_shown = Shown(Camera, None, << >>, 0)
    /\ entry = NoEntry
    /\ after_reset = "none"
    /\ nframes = 0
    /\ nevents = 0
    /\ nkeyframes = 0
    /\ nsteps = 0
    /\ grown = << >>

\* save_solar_system(bodies)
Save ==
    /\ nsteps < MaxLoaderCalls
    /\ call' = [ op |-> "save_solar_system", file |-> save_solar_system(bodies),
                 saved |-> bodies ]
    /\ nsteps' = nsteps + 1
    /\ UNCHANGED << bodies, camera, paused, time_multiplier, movement_speed_multiplier,
                    locked_body, planetary_body, generation, rendered, last_keys, shown,
                    prev_shown, entry, after_reset, nframes, nevents, nkeyframes, grown >>

\* bodies = load_solar_system()
Load ==
    /\ nsteps < MaxLoaderCalls
    /\ bodies' = load_solar_system(call.file)
    /\ call' = [ call EXCEPT !.op = "load_solar_system" ]
    /\ nsteps' = nsteps + 1
    /\ UNCHANGED << camera, paused, time_multiplier, movement_speed_multiplier,
                    locked_body, planetary_body, generation, rendered, last_keys, shown,
                    prev_shown, entry, after_reset, nframes, nevents, nkeyframes, grown >>

NextLoader == Save \/ Load

SpecLoader == InitLoader /\ [][NextLoader]_vars

\* C14: saving a body list and loading the saved file yields bodies with the
\* same mass, position, velocity, radius, colour and inclination, also for a
\* body whose inclination is not 0.  Two units are allowed for the rounding
\* of the angle conversions and of the rotation.
C14_SaveLoadRoundTrip ==
    (call.op = "load_solar_system" /\ call.saved # << >>)
    => /\ Len(bodies) = Len(call.saved)
       /\ \A i \in 1..Len(call.saved) :
             LET old == call.saved[i]
                 new == bodies[i]
             IN /\ new.mass = old.mass
                /\ new.radius = old.radius
                /\ new.color = old.color
                /\ Abs(new.inclination - old.inclination) <= 2
                /\ \A k \in 1..3 : /\ Abs(new.position[k] - old.position[k]) <= 2
                                   /\ Abs(new.velocity[k] - old.velocity[k]) <= 2

\* What makes persisted scene data invalid, read off the file: no file, no
\* JSON, a body without a required field, a colour that is no "#rrggbb"
\* string, no known name and no list of three channels.
Malformed(color_data) ==
    \/ color_data.type = "hex" /\ Len(color_data.channels) # 3
    \/ color_data.type = "name" /\ color_data.name \notin { "Sun", "Earth", "Jupiter" }
    \/ color_data.type = "list" /\ Len(color_data.items) # 3
    \/ color_data.type = "other"

FileBodies(file) ==
    IF file.kind = "json" /\ "bodies" \in DOMAIN file.config THEN file.config.bodies ELSE << >>

Unreadable(file) ==
    \/ file.kind # "json"
    \/ \E i \in 1..Len(FileBodies(file)) :
          ~({ "name", "mass", "position", "velocity" } \subseteq DOMAIN FileBodies(file)[i])

\* The bodies whose colour data, their own or in its absence the default
\* colour of the file, is malformed.
BadColors(file) ==
    { i \in 1..Len(FileBodies(file)) :
         Malformed(IF "color" \in DOMAIN FileBodies(file)[i]
                   THEN FileBodies(file)[i].color ELSE file.config.default_color) }

C14_RoundTripOfFlatBodies ==
    (/\ call.op = "load_solar_system" /\ call.saved # << >>
     /\ \A i \in 1..Len(call.saved) : call.saved[i].inclination = 0)
    => bodies = call.saved

----------------------------------------------------------------------------
(* look_at, project_3d_to_2d and check_hover alone: a camera at one of a few
   positions is pointed at targets, and the cursor is tested against the
   bodies of a scene. *)

MaxViewCalls == 2

ViewScenes ==
    { << Body("Sun", 1000000, << 0, 0, 0 >>, Zero3, 600),
         Body("Earth", 3, << 14960, 0, 0 >>, << 0, 0, 257 >>, 300) >>,
      << Body("Near", 3, << 0, 0, 0 >>, Zero3, 300),
         Body("Far", 1000000, << 0, 0, 20000 >>, Zero3, 800) >>,
      << Body("Left", 3, << -3000, 0, 0 >>, Zero3, 300),
         Body("Right", 3, << 3000, 0, 0 >>, Zero3, 300),
         Body("Middle", 3, << 0, 0, 0 >>, Zero3, 600) >> }

LookTargets(bs, cam) ==
    { bs[i].position : i \in 1..Len(bs) }
    \cup { VSub(VScale(cam.position, 2), bs[i].position) : i \in 1..Len(bs) }
    \cup { cam.position, << 0, 0, 0 >>, << 3000, 4000, 12000 >>, << 0, -40000, 0 >>,
           VAdd(cam.position, << 0, 0, 5 >>) }

InitView ==
    /\ bodies \in ViewScenes
    /\ camera \in { [ Camera EXCEPT !.position = position ] :
                        position \in { Camera.position, << 2500, 0, -2000 >>, << 0, 30000, 0 >> } }
    /\ call = NoCall
    /\ paused = FALSE
    /\ time_multiplier = TIME_MULTIPLIER
    /\ movement_speed_multiplier = Hundredths
    /\ locked_body = None
    /\ planetary_body = None
    /\ generation = 0
    /\ rendered = FALSE
    /\ last_keys = {}
    /\ shown = Shown(Camera, None, << >>, 0)
    /\ prev_shown = Shown(Camera, None, << >>, 0)
    /\ entry = NoEntry
    /\ after_reset = "none"
    /\ nframes = 0
    /\ nevents = 0
    /\ nkeyframes = 0
    /\ nsteps = 0
    /\ grown = << >>

\* camera.look_at(target), then project_3d_to_2d(target, camera, WIDTH, HEIGHT)
LookAtAndProject(target) ==
    /\ nsteps < MaxViewCalls
    /\ camera' = look_at(camera, target)
    /\ call' = [ op |-> "look_at", target |-> target, from |-> camera.position,
                 screen |-> project_3d_to_2d(target, camera', WIDTH, HEIGHT) ]
    /\ nsteps' = nsteps + 1
    /\ UNCHANGED << bodies, paused, time_multiplier, movement_speed_multiplier, locked_body,
                    planetary_body, generation, rendered, last_keys, shown, prev_shown,
                    entry, after_reset, nframes, nevents, nkeyframes, grown >>

\* check_hover(mouse_pos, bodies, camera, WIDTH, HEIGHT)
CheckHover(mouse_pos) ==
    /\ nsteps < MaxViewCalls
    /\ call' = [ op |-> "check_hover", mouse_pos |-> mouse_pos,
                 hovered |-> check_hover(mouse_pos, bodies, camera, WIDTH, HEIGHT) ]
    /\ nsteps' = nsteps + 1
    /\ UNCHANGED << bodies, camera, paused, time_multiplier, movement_speed_multiplier,
                    locked_body, planetary_body, generation, rendered, last_keys, shown,
                    prev_shown, entry, after_reset, nframes, nevents, nkeyframes, grown >>

NextView ==
    \/ \E target \in LookTargets(bodies, camera) : LookAtAndProject(target)
    \/ \E x \in { 0, 250, 500, 750, 999 }, y \in { 0, 400, 799 } : CheckHover(<< x, y >>)

SpecView == InitView /\ [][NextView]_vars

\* The cursor is within max(10, int(radius x scale)) pixels of the projected
\* centre of bodies[i].
UnderCursor(i) ==
    LET proj == project_3d_to_2d(bodies[i].position, camera, WIDTH, HEIGHT)
        screen_radius == Max(10, (bodies[i].radius * fov_factor) \div proj.cam_z)
        dx == call.mouse_pos[1] - proj.screen_x
        dy == call.mouse_pos[2] - proj.screen_y
    IN /\ Abs(dx) <= screen_radius /\ Abs(dy) <= screen_radius
       /\ dx * dx + dy * dy <= screen_radius * screen_radius

\* The projected centre of bodies[i] is in the window or within 100 pixels
\* of it.
NearWindow(i) ==
    LET proj == project_3d_to_2d(bodies[i].position, camera, WIDTH, HEIGHT)
    IN /\ -100 <= proj.screen_x /\ proj.screen_x <= WIDTH + 100
       /\ -100 <= proj.screen_y /\ proj.screen_y <= HEIGHT + 100

\* C15 as stated: check_hover returns the first body in list order whose
\* projected centre lies within max(10 pixels, radius x scale) of the cursor,
\* and None when there is no such body.
C15_FirstUnderCursor ==
    call.op = "check_hover" =>
        IF \E i \in 1..Len(bodies) : UnderCursor(i)
        THEN /\ call.hovered \in 1..Len(bodies)
             /\ UnderCursor(call.hovered)
             /\ \A j \in 1..(call.hovered - 1) : ~UnderCursor(j)
        ELSE call.hovered = 0

\* C15, amended: check_hover returns the first body in list order whose
\* projected centre lies within 100 pixels of the window and within
\* max(10 pixels, radius x scale) of the cursor, and None when there is no
\* such body; of several such bodies the earliest in the list wins.
C15_FirstVisibleUnderCursor ==
    call.op = "check_hover" =>
        IF \E i \in 1..Len(bodies) : NearWindow(i) /\ UnderCursor(i)
        THEN /\ call.hovered \in 1..Len(bodies)
             /\ NearWindow(call.hovered) /\ UnderCursor(call.hovered)
             /\ \A j \in 1..(call.hovered - 1) : ~(NearWindow(j) /\ UnderCursor(j))
        ELSE call.hovered = 0

\* Two bodies under the cursor, both projected near the window: the one
\* returned is the earlier of the list.
C15_Witness ==
    /\ call.op = "check_hover"
    /\ call.hovered \in 1..Len(bodies)
    /\ \E j \in (call.hovered + 1)..Len(bodies) : NearWindow(j) /\ UnderCursor(j)

\* C17: after look_at(target) with the target away from the camera, the
\* target is projected to the centre of the viewport, (WIDTH/2, HEIGHT/2),
\* within one pixel.
C17_TargetAtCenter ==
    (call.op = "look_at" /\ call.target # call.from)
    => /\ Abs(call.screen.screen_x - WIDTH \div 2) <= 1
       /\ Abs(call.screen.screen_y - HEIGHT \div 2) <= 1

\* A look_at that turned the camera towards a target off its former axis.
C17_Witness ==
    /\ call.op = "look_at"
    /\ call.target # call.from
    /\ camera.forward # axis_z
    /\ camera.forward[1] # 0 /\ camera.forward[2] # 0 /\ camera.forward[3] # 0
    /\ call.screen.screen_x = WIDTH \div 2

----------------------------------------------------------------------------
(* Planetary mode for as many frames as one likes: the state after K_p on
   the only body of a scene, which gravity does not move, and then frames
   with any keys; nframes counts them modulo 2.  The frame loop runs a frame
   after a frame for as long as the program runs, hence the weak fairness of
   the step that counts a frame. *)

InitPlanetary ==
    /\ bodies \in { << Body("Sun", 1000000, << 0, 0, 0 >>, Zero3, 800) >>,
                    << Body("Giant", 954, << 77850, 0, 0 >>, Zero3, 2000) >> }
    /\ planetary_body = Ref(1, 0)
    /\ locked_body = None
    /\ camera = NorthPoleCamera(PlanetaryAttrsCleared(Camera), bodies[1])
    /\ paused = FALSE
    /\ time_multiplier = TIME_MULTIPLIER
    /\ movement_speed_multiplier = Hundredths
    /\ generation = 0
    /\ rendered = FALSE
    /\ last_keys = {}
    /\ shown = Shown(Camera, None, bodies, 0)
    /\ prev_shown = Shown(Camera, None, bodies, 0)
    /\ entry = NoEntry
    /\ after_reset = "none"
    /\ nframes = 0
    /\ nevents = 0
    /\ nkeyframes = 0
    /\ nsteps = 0
    /\ grown = << >>
    /\ call = NoCall

\* One frame of the loop.
PlanetaryFrame(keys) ==
    /\ CameraFinite(camera)
    /\ bodies' = FrameBodies(bodies, paused, time_multiplier)
    /\ camera' = FrameCamera(camera, keys, movement_speed_multiplier, locked_body,
                             planetary_body, bodies, generation, paused, time_multiplier)
    /\ rendered' = TRUE
    /\ nframes' = (nframes + 1) % 2
    /\ UNCHANGED << paused, time_multiplier, movement_speed_multiplier, locked_body,
                    planetary_body, generation, last_keys, shown, prev_shown, entry,
                    after_reset, nevents, nkeyframes, nsteps, grown, call >>

NextPlanetary == \E keys \in KeySets : PlanetaryFrame(keys)

SpecPlanetary ==
    /\ InitPlanetary /\ [][NextPlanetary]_vars
    /\ WF_nframes(CameraFinite(camera) /\ nframes' = (nframes + 1) % 2)

\* The camera's distance to the planetary body less the target distance,
\* radius + 1e9, and whether it is more than 1% of the target.
PlanetaryError(cam, bs) ==
    Norm(VSub(bs[1].position, cam.position)) - (bs[1].radius + planetary_altitude)

OutsideBand(cam, bs) ==
    Abs(PlanetaryError(cam, bs)) * 100 > bs[1].radius + planetary_altitude

\* C16: in Planetary mode, with any of W/S/A/D and the arrows held, a frame
\* that starts with the distance more than 1% of the target off the target
\* reduces the absolute error, by a tenth of it; a frame that starts within
\* the 1% band leaves the distance as it is; and a distance outside the band
\* eventually enters it.
C16_DistanceConverges ==
    /\ [][ IF OutsideBand(camera, bodies)
           THEN /\ Abs(PlanetaryError(camera', bodies')) < Abs(PlanetaryError(camera, bodies))
                /\ Abs(PlanetaryError(camera', bodies'))
                     = Abs(PlanetaryError(camera, bodies))
                         - Abs(PlanetaryError(camera, bodies)) \div 10
           ELSE PlanetaryError(camera', bodies') = PlanetaryError(camera, bodies) ]_vars
    /\ OutsideBand(camera, bodies) ~> ~OutsideBand(camera, bodies)

\* The distance inside the band, reached from the north pole (which is
\* outside it) through frames in which W, A, S or D moved the camera off the
\* pole.
C16_Witness ==
    /\ rendered
    /\ ~OutsideBand(camera, bodies)
    /\ camera.position[2] - bodies[1].position[2] # Norm(VSub(bodies[1].position, camera.position))

----------------------------------------------------------------------------
(* Properties of the locked camera's input, in the frame loop. *)

\* C19: in Locked mode W/A/S/D turn the lock offset around the target
\* without changing its length: over a frame with only W, A, S or D held, in
\* which the handler acted, the camera's distance to the locked body is what
\* it was at the end of the frame before (0.04% allowed for rounding).
C19_OrbitKeepsDistance ==
    (/\ rendered
     /\ last_keys # {} /\ last_keys \subseteq { "w", "a", "s", "d" }
     /\ shown.locked.id # 0 /\ shown.locked = prev_shown.locked)
    => Abs(Norm(shown.rel) - Norm(prev_shown.rel)) * 2500 <= Norm(prev_shown.rel)


(* Locked mode from close by and from afar: the state after K_SPACE, then
   possibly K_p on a body (which puts the camera 7e7 m above its north
   pole), then K_l on that body and one frame, which captures the lock
   offset; with the movement speed multiplier K_COMMA and K_PERIOD lead to.
   Then up to MaxFrames frames with any keys. *)
InitLocked ==
    /\ bodies = create_solar_system
    /\ planetary_body = None
    /\ paused = TRUE
    /\ time_multiplier = TIME_MULTIPLIER
    /\ generation = 0
    /\ movement_speed_multiplier \in { movement_speed_min, Hundredths, movement_speed_max }
    /\ \E i \in 1..Len(bodies), from_pole \in BOOLEAN :
          /\ locked_body = Ref(i, 0)
          /\ camera = FrameCamera(IF from_pole
                                  THEN NorthPoleCamera(PlanetaryAttrsCleared(Camera), bodies[i])
                                  ELSE Camera,
                                  {}, movement_speed_multiplier, Ref(i, 0), None, bodies, 0,
                                  TRUE, TIME_MULTIPLIER)
    /\ rendered = TRUE
    /\ last_keys = {}
    /\ shown = Shown(camera, locked_body, bodies, 0)
    /\ prev_shown = Shown(Camera, None, bodies, 0)
    /\ entry = NoEntry
    /\ after_reset = "none"
    /\ nframes = 0
    /\ nevents = 0
    /\ nkeyframes = 0
    /\ nsteps = 0
    /\ grown = << >>
    /\ call = NoCall

NextLocked == \E keys \in KeySets : Frame(keys)

SpecLocked == InitLocked /\ [][NextLocked]_vars

\* C20: in Locked mode, after a frame in which Q or E was handled, the lock
\* offset is at least the minimum distance (1e10) long.
C20_ZoomKeepsMinimum ==
    (/\ rendered
     /\ last_keys \cap { "q", "e" } # {}
     /\ shown.locked.id # 0 /\ shown.locked = prev_shown.locked
     /\ hasattr(camera, "lock_offset"))
    => Norm(camera.lock_offset) >= min_distance

----------------------------------------------------------------------------
(* The frame loop and the physics step. *)

\* C21: a frame of a paused simulation leaves the bodies as they are, and so
\* does every command other than a reset; a frame of a running simulation
\* makes exactly one update_physics step, between the continuous-key
\* handling, which sees the bodies before the step, and the camera-follow
\* adjustment, which sees them after it.
C21_OneStepPerFrame ==
    [][/\ (paused /\ generation' = generation) => bodies' = bodies
       /\ (nframes' = nframes /\ generation' = generation) => bodies' = bodies
       /\ (nframes' # nframes /\ ~paused) =>
             /\ bodies' = update_physics(bodies, time_multiplier)
             /\ camera' = FrameCameraAfter(
                              ContinuousInput(camera, last_keys', movement_speed_multiplier,
                                              locked_body, planetary_body, bodies, generation),
                              locked_body, planetary_body, bodies, bodies', generation,
                              FALSE)]_vars

\* A paused frame in Locked mode with a key held, after the bodies have moved.
C21_Witness ==
    /\ rendered /\ paused /\ last_keys # {}
    /\ shown.locked.id # 0
    /\ generation = 0 /\ bodies # create_solar_system

\* C22: in Planetary mode the physics step of a running frame leaves the
\* camera's position relative to the planetary body as the input handling
\* left it: the camera is moved by the displacement of the body in the step.
C22_CameraMovesWithPlanet ==
    [][(nframes' # nframes /\ ~paused /\ IsSet(planetary_body)) =>
           VSub(camera'.position, DerefIn(planetary_body, bodies', generation).position)
           = VSub(ContinuousInput(camera, last_keys', movement_speed_multiplier, locked_body,
                                  planetary_body, bodies, generation).position,
                  DerefIn(planetary_body, bodies, generation).position)]_vars

\* A running frame in Planetary mode around a body of the list that moves.
C22_Witness ==
    /\ rendered /\ ~paused
    /\ IsSet(planetary_body) /\ planetary_body.gen = generation
    /\ bodies[planetary_body.id].velocity # Zero3
    /\ bodies[planetary_body.id].position # create_solar_system[planetary_body.id].position

\* C23: calculate_gravity returns the zero vector for two bodies at the same
\* position, and update_physics completes on a list holding such a pair:
\* whenever its outer loop reaches a body that another body coincides with,
\* the force added for that body is zero, and the step ends with every body
\* of the list advanced.
C23_CoincidentPairZeroForce ==
    /\ \A i, j \in 1..Len(bodies) :
          (j # i /\ bodies[i].position = bodies[j].position)
          => calculate_gravity(bodies[i], bodies[j]) = Zero3
    /\ call.op = "update_physics" /\ call.forces # << >> =>
          /\ Len(call.forces) = Len(call.before) /\ Len(bodies) = Len(call.before)
          /\ \A i, j \in 1..Len(call.forces) :
                (j # i /\ call.forces[i].at[i] = call.forces[i].at[j])
                => call.forces[i].from[j] = Zero3

\* A step from a list whose first two bodies are at the same place, in which
\* the first of them was moved by the third.
C23_Witness ==
    /\ call.op = "update_physics" /\ call.forces # << >>
    /\ call.before[1].position = call.before[2].position
    /\ call.forces[1].net # Zero3
    /\ bodies[1].position # call.before[1].position

----------------------------------------------------------------------------
(* The time commands alone: K_PLUS, K_MINUS and K_r in any order from the   *)
(* program's initial state, as many as take the multiplier to either limit. *)

MaxTimeCommands == 12

TimeCommand(key) ==
    /\ nevents < MaxTimeCommands
    /\ nevents' = nevents + 1
    /\ call' = [ op |-> key, before |-> time_multiplier ]
    /\ rendered' = FALSE
    /\ UNCHANGED << camera, paused, last_keys, shown, prev_shown, entry, nframes, nkeyframes,
                    nsteps, grown >>

PressPlus ==
    /\ TimeCommand("K_PLUS")
    /\ time_multiplier' = speed_up(time_multiplier)
    /\ UNCHANGED << bodies, movement_speed_multiplier, locked_body, planetary_body,
                    generation, after_reset >>

PressMinus ==
    /\ TimeCommand("K_MINUS")
    /\ time_multiplier' = slow_down(time_multiplier)
    /\ UNCHANGED << bodies, movement_speed_multiplier, locked_body, planetary_body,
                    generation, after_reset >>

PressR ==
    /\ TimeCommand("K_r")
    /\ bodies' = create_solar_system
    /\ time_multiplier' = TIME_MULTIPLIER
    /\ movement_speed_multiplier' = Hundredths
    /\ generation' = generation + 1
    /\ locked_body' = Detach(locked_body, bodies, generation)
    /\ planetary_body' = Detach(planetary_body, bodies, generation)
    /\ after_reset' = "pending"

SpecTime == Init /\ [][PressPlus \/ PressMinus \/ PressR]_vars

\* C24: under any sequence of K_PLUS, K_MINUS and K_r the time multiplier stays
\* within [0.01, 100]: K_PLUS doubles it, up to 100; K_MINUS divides it by 1.5,
\* down to 0.01; K_r returns it to 1.0.
C24_TimeMultiplierBounded ==
    /\ time_multiplier_min <= time_multiplier /\ time_multiplier <= time_multiplier_max
    /\ call.op = "K_PLUS" =>
          time_multiplier = IF call.before * 2 <= 100 * Hundredths THEN call.before * 2
                            ELSE 100 * Hundredths
    /\ call.op = "K_MINUS" =>
          time_multiplier = IF TDiv(call.before * 10, 15) >= 1 THEN TDiv(call.before * 10, 15)
                            ELSE 1
    /\ call.op = "K_r" => time_multiplier = Hundredths

\* A speed-up that the cap cut short.
C24_Witness ==
    /\ call.op = "K_PLUS"
    /\ call.before * 2 > 100 * Hundredths /\ call.before < 100 * Hundredths
    /\ time_multiplier = 100 * Hundredths

----------------------------------------------------------------------------
(* scripts/visuals.py: draw_bodies, as the order in which it draws. *)

\* The first element of a body's tuple in body_renders: 0 for the planetary
\* body, the depth along forward (before any clamping) for another body.
RenderDepth(bs, cam, planetary, i) ==
    IF i = planetary THEN 0
    ELSE TDiv(Dot(VSub(bs[i].position, cam.position), cam.forward), UNIT)

\* The place of bodies[i] in body_renders after the sort by depth, furthest
\* first; list.sort is stable, also with reverse=True.
RenderRank(bs, cam, planetary, i) ==
    1 + Cardinality({ j \in 1..Len(bs) :
                        \/ RenderDepth(bs, cam, planetary, j) > RenderDepth(bs, cam, planetary, i)
                        \/ /\ RenderDepth(bs, cam, planetary, j) = RenderDepth(bs, cam, planetary, i)
                           /\ j < i })

\* Whether the drawing loop reaches pygame.draw.circle for bodies[i].
Drawn(bs, cam, width, height, planetary, i) ==
    \/ i = planetary
    \/ LET proj == project_3d_to_2d(bs[i].position, cam, width, height)
       IN /\ -hover_margin <= proj.screen_x /\ proj.screen_x <= width + hover_margin
          /\ -hover_margin <= proj.screen_y /\ proj.screen_y <= height + hover_margin

\* draw_bodies: the indices of the bodies drawn, in the order of drawing;
\* planetary is the index of planetary_body in the list, 0 when it is None
\* or not an object of the list.
draw_bodies(bs, cam, width, height, planetary) ==
    LET body_renders == [ r \in 1..Len(bs) |->
                            CHOOSE i \in 1..Len(bs) : RenderRank(bs, cam, planetary, i) = r ]
    IN SelectSeq(body_renders, LAMBDA i : Drawn(bs, cam, width, height, planetary, i))

\* Planetary mode entered with K_p on a body of the paused initial scene,
\* then frames with any keys.
InitDraw ==
    /\ bodies = create_solar_system
    /\ paused = TRUE
    /\ \E i \in 1..Len(bodies) :
          /\ planetary_body = Ref(i, 0)
          /\ camera = NorthPoleCamera(PlanetaryAttrsCleared(Camera), bodies[i])
    /\ locked_body = None
    /\ time_multiplier = TIME_MULTIPLIER
    /\ movement_speed_multiplier = Hundredths
    /\ generation = 0
    /\ rendered = FALSE
    /\ last_keys = {}
    /\ shown = Shown(Camera, None, bodies, 0)
    /\ prev_shown = Shown(Camera, None, bodies, 0)
    /\ entry = NoEntry
    /\ after_reset = "none"
    /\ nframes = 0
    /\ nevents = 0
    /\ nkeyframes = 0
    /\ nsteps = 0
    /\ grown = << >>
    /\ call = NoCall

SpecDraw == InitDraw /\ [][NextPlanetary]_vars

\* C25: in Planetary mode the planetary body is the last body draw_bodies
\* draws in a frame.
C25_PlanetaryDrawnLast ==
    (rendered /\ IsSet(planetary_body) /\ planetary_body.gen = generation) =>
        LET drawn == draw_bodies(bodies, camera, WIDTH, HEIGHT, planetary_body.id)
        IN drawn # << >> /\ drawn[Len(drawn)] = planetary_body.id

----------------------------------------------------------------------------
(* The followed body and the list. *)

\* C26: at every rendered frame the body the camera is locked to, and the
\* body it is in planetary mode around, is an object of the list that
\* update_physics advances.
C26_FollowedBodyInList ==
    rendered =>
        /\ IsSet(locked_body) => locked_body.gen = generation
        /\ IsSet(planetary_body) => planetary_body.gen = generation

----------------------------------------------------------------------------
(* The positions a step computes its forces from. *)

Reversed(s) == [ k \in 1..Len(s) |-> s[Len(s) + 1 - k] ]

\* C27: within one update_physics step the net force of every body is
\* computed from the positions all bodies had when the step began, and the
\* step gives the same result on the list in the opposite order.
C27_ForcesFromStartOfStep ==
    (call.op = "update_physics" /\ call.forces # << >>) =>
        /\ \A i, j \in 1..Len(call.before) :
              call.forces[i].at[j] = call.before[j].position
        /\ bodies = Reversed(update_physics(Reversed(call.before), call.tm))

----------------------------------------------------------------------------
(* Bodies behind the camera. *)

\* C28: check_hover never returns a body behind the camera, one whose depth
\* along forward is zero or negative.
C28_HoverNeverBehind ==
    (call.op = "check_hover" /\ call.hovered # 0) =>
        Dot(VSub(bodies[call.hovered].position, camera.position), camera.forward) > 0

----------------------------------------------------------------------------
(* Zooming in Locked mode. *)

\* C29: in Locked mode a frame with E held leaves the camera on the side of
\* the body it was on: the offset from the body after the frame makes an
\* acute angle with the offset before it.
C29_ZoomInKeepsSide ==
    (/\ rendered /\ last_keys = { "e" }
     /\ shown.locked.id # 0 /\ shown.locked = prev_shown.locked)
    => UDot(UnitOf(shown.rel), UnitOf(prev_shown.rel)) > 0

----------------------------------------------------------------------------
(* A and D in Planetary mode. *)

====
